---- MODULE Spec2Model ----
(***************************************************************************)
(* Sandwich-Daemon gateway: the shard connection state machine             *)
(* (Shard.Connect / Listen / OnEvent / Heartbeat / Reconnect / Close in    *)
(* src/sandwich-default.yaml, which holds shard.go after the YAML          *)
(* defaults) and the guild member chunking flow (Shard.ChunkGuild).        *)
(*                                                                         *)
(* One shard is modelled with the goroutines the code runs for it:         *)
(*   "main"        Shard.Open -> Listen -> OnEvent (and the first Connect) *)
(*   "hb1", "hb2"  instances of `go sh.Heartbeat()`                        *)
(*   "closer"      the parent (ShardGroup.Close) calling Shard.Close       *)
(* and one reader goroutine per dialed connection (FeedWebsocket).         *)
(* Every goroutine has a program counter pc[t] and a return stack stk[t];  *)
(* a step is the code between two accesses of shared state or two blocking *)
(* points.                                                                 *)
(***************************************************************************)
EXTENDS Integers, Sequences, FiniteSets, TLC

\* ---------------------------------------------------------------- bounds
\* Number of successful dials (connection ids 1..MaxConn).
MaxConn == 2
\* Number of frames the gateway sends over the whole run besides the HELLO of
\* every connection and the READY that answers every IDENTIFY.
MaxFrames == 1
\* Number of heartbeat ticks that end in a Reconnect (send error or ack lapse).
MaxHbFail == 1
\* Manager.Configuration.Bot.Retries (>= 1 after NormalizeConfiguration).
CfgRetries == 1
\* Concurrent callers of ChunkGuild for one guild.
MaxCallers == 2
\* GUILD_MEMBERS_CHUNK events the gateway delivers for the guild.
MaxChunks == 2
\* Capacity of ShardGroup.ChunkLimiter.
ChunkLimit == 1
\* Dispatch frames handed to exec goroutines, over all shards.
MaxDispatch == 3
\* Capacity of Sandwich.Pool, the worker-pool ticket limiter.
PoolSize == 2
\* Shard groups one manager creates.
MaxGroups == 3
\* Concurrent RPC requests.
MaxRpcs == 2
\* Largest number of shard ids a create request asks for.
MaxIds == 3
\* manager.Gateway.SessionStartLimit.Remaining as the gateway last reported it.
SessionsRemaining == 2
\* Last instant of the clock the identify bucket is read against, in half
\* seconds.
MaxTime == 12
\* manager.Gateway.SessionStartLimit.MaxConcurrency.
GwMaxConcurrency == 2
\* Longest token of a manager configuration, in characters.
MaxTokenLen == 2
\* Largest max_heartbeat_failures and retries of a manager configuration.
MaxSetting == 2
\* Largest shard count configured or recommended by the gateway.
MaxShardCount == 5
\* Largest max_concurrency the gateway reports.
MaxConcurrencyLimit == 3
\* Largest retry budget of a shard whose Reconnect keeps failing.
MaxBudget == 12

\* ------------------------------------------------------ program constants
\* reconnectCloseCode / maxReconnectWait (untyped constants of the source).
maxReconnectWait == 600
\* time.Second in time.Duration units (nanoseconds).
Second == 1000000000
\* messageChannelBuffer
messageChannelBuffer == 64
\* identifyRatelimit, (5 * time.Second) + (500 * time.Millisecond), in half
\* seconds.
identifyRatelimit == 11

\* Gateway opcodes are written by name: "Dispatch" (0), "Heartbeat" (1),
\* "Identify" (2), "VoiceStateUpdate" (4), "Resume" (6), "Reconnect" (7),
\* "InvalidSession" (9), "Hello" (10), "HeartbeatACK" (11), and "Unknown" for an
\* opcode the switch of OnEvent does not list.

Tasks == {"main", "hb1", "hb2", "closer"}
HbTasks == {"hb1", "hb2"}
\* Connection ids: 1..MaxConn are given out by the dials of a run; Established
\* is the connection of a shard that is already connected when the run starts.
Established == MaxConn + 1
ConnIds == 1..Established

VARIABLES
  Status,          \* sh.Status
  wsConn,          \* sh.wsConn: 0 is nil, else a connection id
  ctxDone,         \* whether sh.ctx is cancelled (a context is replaced only
                   \* once it is cancelled, so every older context is cancelled)
  HeartbeatActive, \* sh.HeartbeatActive
  seq,             \* *sh.seq
  sessionID,       \* sh.sessionID: 0 is "", else the gateway session's id
  Retries,         \* *sh.Retries
  ErrorCh,         \* sh.ErrorCh: 0 is nil, else the channel of that dial
  MessageCh,       \* sh.MessageCh
  conn,            \* per connection: live, reader goroutine running, context, session
  msgq,            \* per connection: contents of the messageCh made by FeedWebsocket
  errq,            \* per connection: contents of the errorCh (capacity 1)
  nconn,           \* connections dialed so far
  nframes,         \* frames after HELLO sent so far
  nhbfail,         \* failing heartbeat ticks so far
  gwSeq,           \* gateway side: last sequence number sent in the session
  pending,         \* READY dispatches handed to `go exec()` and not yet handled
  pc, stk, loc,    \* per goroutine: position, return labels, locals
  sgStatus,        \* ShardGroup.Status
  sgError,         \* ShardGroup.Error
  hs,              \* history: the last IDENTIFY/RESUME handed to SendEvent
  parentClosed,    \* history: Shard.Close by the parent has completed
  lastDial,        \* history: the dial just made, whether the parent had closed
                   \* the shard before it, and the Reconnect it belongs to
  lastInv,         \* history: the last fully handled InvalidSession frame
  lastRc,          \* history: the last Reconnect whose final attempt failed
  MemberChunksComplete, \* ShardGroup.MemberChunksComplete[guild]: 0 is no entry,
                        \* else the flow whose abool is stored
  MemberChunkCallbacks, \* ShardGroup.MemberChunkCallbacks[guild]: the flow whose
                        \* arrival channel is stored
  MemberChunksCallback, \* ShardGroup.MemberChunksCallback[guild]: the flow whose
                        \* WaitGroup is stored
  completed,       \* per flow: its abool is set
  wgDone,          \* per flow: wg.Done() was called on its WaitGroup
  chanClosed,      \* per flow: its arrival channel was closed
  closedNil,       \* close() was called on a missing map entry (a nil channel)
  tickets,         \* ChunkLimiter tickets in use
  rgmSent,         \* RequestGuildMembers frames sent
  nchunks,         \* member chunk events delivered
  cpc,             \* per ChunkGuild caller (and the flow it starts): position
  cloc,            \* per caller: wait argument, ticket held, WaitGroup waited
                   \* on, what ChunkGuild returned to it, error of its flow
  dpc,             \* per exec goroutine of OnEvent's Dispatch case: position
  dmsg,            \* per exec goroutine: msg.Type of its frame
  dres,            \* per exec goroutine: ticket held, what StateDispatch returned,
                   \* runs of the state update, packets published, err of
                   \* OnDispatch, whether exec logged it, FreeTicket calls
  pool,            \* Sandwich.Pool: tickets in use
  ShardGroups,     \* mg.ShardGroups: per id the status of the group, "none"
                   \* without an entry
  ShardGroupIter,  \* *mg.ShardGroupIter
  issued,          \* history: the ids Scale has issued
  rpc,             \* per RPC request: position
  rloc,            \* per RPC request: manager and group named, shard ids asked
                   \* for, id issued by Scale, ids issued before it, response
  now,             \* the clock, in half seconds
  buckets,         \* per bucket store and name: the bucket of that name
  ish,             \* per connecting shard: position in Connect, session held
  idents,          \* history: per identify bucket the last two IDENTIFY frames
  Configuration,   \* mg.Configuration
  given,           \* history: the configuration NewManager was called with
  created,         \* what the last NewManager returned: a manager or an error
  Gateway,         \* mg.Gateway: Shards and SessionStartLimit.MaxConcurrency
  gathered,        \* history: the last GatherShardCount, the settings and the
                   \* gateway descriptor it read and the count it returned
  backoff,         \* a Reconnect whose Connect attempts fail: position, wait,
                   \* budget left, the waits slept so far, what it returned
  lpc,             \* per function that takes the configuration locks: the
                   \* lock operation it is about to make
  rw,              \* per sync.RWMutex: writer, callers inside Lock, read holds
  reclose,         \* history: the Close the manager ran on the shard after its
                   \* group had closed it
  sendLog          \* history: whether the last Heartbeat frame, and the last
                   \* frame of another opcode, waited on the send bucket

vars == <<Status, wsConn, ctxDone, HeartbeatActive, seq, sessionID, Retries,
          ErrorCh, MessageCh, conn, msgq, errq, nconn, nframes, nhbfail, gwSeq,
          pending, pc, stk, loc, sgStatus, sgError, hs, parentClosed,
          lastDial, lastInv, lastRc, MemberChunksComplete,
          MemberChunkCallbacks, MemberChunksCallback, completed, wgDone,
          chanClosed, closedNil, tickets, rgmSent, nchunks, cpc, cloc,
          dpc, dmsg, dres, pool, ShardGroups, ShardGroupIter, issued, rpc, rloc,
          now, buckets, ish, idents, Configuration, given, created, Gateway,
          gathered, backoff, lpc, rw, reclose, sendLog>>

Callers == 1..MaxCallers

\* The member chunking state of the shard group.
chunkV == <<MemberChunksComplete, MemberChunkCallbacks, MemberChunksCallback,
            completed, wgDone, chanClosed, closedNil, tickets, rgmSent, nchunks,
            cpc, cloc>>

\* The exec goroutines of Dispatch frames and the worker pool.
Execs == 1..MaxDispatch

dispV == <<dpc, dmsg, dres, pool>>

\* The manager's shard groups and the RPC requests that change them.
Rpcs == 1..MaxRpcs

GroupIds == 0..(MaxGroups - 1)

mgV == <<ShardGroups, ShardGroupIter, issued, rpc, rloc>>

\* The shards that connect side by side, and the bucket stores they use.
idV == <<now, buckets, ish, idents>>

\* The configuration of a manager and the gateway descriptor it fetched.
cfgV == <<Configuration, given, created, Gateway, gathered, backoff>>

\* The configuration locks and the functions that take them.
lockV == <<lpc, rw>>

\* What the model records of the shard beyond its fields.
obsV == <<reclose, sendLog>>

\* The state of the shard.
shardV == <<Status, wsConn, ctxDone, HeartbeatActive, seq, sessionID, Retries,
            ErrorCh, MessageCh, conn, msgq, errq, nconn, nframes, nhbfail, gwSeq,
            pending, pc, stk, loc, sgStatus, sgError, hs, parentClosed, lastDial,
            lastInv, lastRc>>

\* No Dispatch frame has been handled.
NoRes == [ticket |-> 0, st |-> "none", state |-> 0, published |-> 0, err |-> "nil",
          logged |-> FALSE, freed |-> 0]

DispatchInit ==
  /\ dpc = [d \in Execs |-> "idle"]
  /\ dmsg = [d \in Execs |-> "none"]
  /\ dres = [d \in Execs |-> NoRes]
  /\ pool = {}

\* NewManager: an empty shard-group map and a zero counter; no request runs.
NoRpc == [mg |-> "none", g |-> 0, n |-> 0, iter |-> 0, before |-> {}, res |-> "none"]

ManagerInit ==
  /\ ShardGroups = [g \in GroupIds |-> "none"]
  /\ ShardGroupIter = 0
  /\ issued = {}
  /\ rpc = [r \in Rpcs |-> "idle"]
  /\ rloc = [r \in Rpcs |-> NoRpc]

\* Shards of the process: two managers with a token each; manager "bot" has
\* an old and a new shard group (a rolling restart), both holding shard 0.
IdShards == {[mgr |-> "bot", grp |-> 0, id |-> 0],
             [mgr |-> "bot", grp |-> 1, id |-> 0],
             [mgr |-> "bot", grp |-> 0, id |-> 2],
             [mgr |-> "beta", grp |-> 0, id |-> 0]}

\* sh.ShardGroup.ShardCount
ShardCountOf(s) == IF s.grp = 0 THEN 3 ELSE 4

\* sh.Manager.Configuration.Token
TokenOf(m) == IF m = "bot" THEN "T1" ELSE "T2"

\* QuickHash: a digest of the token (equal tokens have equal digests).
QuickHash(token) == IF token = "T1" THEN 1 ELSE 2

\* sh.ShardID % sh.Manager.Gateway.SessionStartLimit.MaxConcurrency
ConcurrencyBucket(s) == s.id % GwMaxConcurrency

\* fmt.Sprintf("gw:%s:%d", hash, concurrencyBucket)
GwName(s) == <<"gw", QuickHash(TokenOf(s.mgr)), ConcurrencyBucket(s)>>

\* fmt.Sprintf("ws:%d:%d", sh.ShardID, sh.ShardGroup.ShardCount)
WsName(s) == <<"ws", s.id, ShardCountOf(s)>>

GwNames == {GwName(s) : s \in IdShards}
BucketNames == GwNames \cup {WsName(s) : s \in IdShards}

\* The stores: Sandwich.Buckets of the process and Manager.Buckets of each
\* manager.
BucketStores == {"sandwich"} \cup {s.mgr : s \in IdShards}

\* A store without a bucket of some name holds NoBucket there.
NoBucket == [limit |-> 0, per |-> 0, taken |-> {}]

\* BucketStore.CreateBucket: creating an existing bucket is a no-op.
CreateBucket(st, name, limit, per) ==
  IF st[name].limit # 0 THEN st
  ELSE [st EXCEPT ![name] = [limit |-> limit, per |-> per, taken |-> {}]]

\* The slots of a bucket in use at instant t: those taken less than `per` ago.
SlotsUsed(b, t) == {u \in b.taken : t - u < b.per}

\* BucketStore.WaitForBucket returns an error for a name without a bucket,
\* and otherwise once a slot is free.
WaitReturns(st, name, t) ==
  st[name].limit = 0 \/ Cardinality(SlotsUsed(st[name], t)) < st[name].limit

\* BucketStore.WaitForBucket: the slot it takes.
WaitForBucket(st, name, t) ==
  IF st[name].limit = 0 THEN st
  ELSE [st EXCEPT ![name].taken = SlotsUsed(st[name], t) \cup {t}]

\* BucketStore.ResetBucket: clears the used count.
ResetBucket(st, name) ==
  IF st[name].limit = 0 THEN st ELSE [st EXCEPT ![name].taken = {}]

\* No shard connects; no store holds a bucket.
IdentifyInit ==
  /\ now = 0
  /\ buckets = [b \in BucketStores |-> [n \in BucketNames |-> NoBucket]]
  /\ ish = [s \in IdShards |-> [pc |-> "idle", session |-> FALSE]]
  /\ idents = [n \in GwNames |-> <<>>]

\* Tokens are strings over a blank and a character that is not white space.
TokenChars == {" ", "x"}
Tokens == UNION {[1..n -> TokenChars] : n \in 0..MaxTokenLen}

\* The manager configurations NewManager is called with.
Configurations ==
  [Token : Tokens, ClientName : {"", "sandwich"},
   MaxHeartbeatFailures : 0..MaxSetting, Retries : 0..MaxSetting,
   AutoSharded : BOOLEAN, ShardCount : 0..MaxShardCount]

\* No manager was asked for; discord.GatewayBot{} is the zero value.
NoConfiguration ==
  [Token |-> <<>>, ClientName |-> "", MaxHeartbeatFailures |-> 0, Retries |-> 0,
   AutoSharded |-> FALSE, ShardCount |-> 0]

NotGathered ==
  [done |-> FALSE, auto |-> FALSE, recommended |-> 0, configured |-> 0,
   per |-> 0, count |-> 0]

NoBackoff == [pc |-> "idle", wait |-> 0, retries |-> 0, slept |-> <<>>, res |-> "none"]

ConfigInit ==
  /\ backoff = NoBackoff
  /\ Configuration = NoConfiguration
  /\ given = NoConfiguration
  /\ created = "none"
  /\ Gateway = [Shards |-> 0, MaxConcurrency |-> 0]
  /\ gathered = NotGathered

\* strings.TrimSpace: the string without its leading and trailing white space.
RECURSIVE TrimLeft(_)
TrimLeft(t) == IF t # <<>> /\ Head(t) = " " THEN TrimLeft(Tail(t)) ELSE t

RECURSIVE TrimRight(_)
TrimRight(t) ==
  IF t # <<>> /\ t[Len(t)] = " " THEN TrimRight(SubSeq(t, 1, Len(t) - 1)) ELSE t

TrimSpace(t) == TrimRight(TrimLeft(t))

\* The test NormalizeConfiguration makes of the token, before it trims it.
TokenMissing(token) == token = <<>>

\* The floor of 1 NormalizeConfiguration puts under max_heartbeat_failures
\* and retries.
AtLeastOne(n) == IF n < 1 THEN 1 ELSE n

\* NormalizeConfiguration: the configuration as it leaves it, and its error.
NormalizeConfiguration(c) ==
  IF TokenMissing(c.Token)
  THEN [cfg |-> c, err |-> "Manager configuration missing token"]
  ELSE LET n == [c EXCEPT !.Token = TrimSpace(@),
                          !.MaxHeartbeatFailures = AtLeastOne(@),
                          !.Retries = AtLeastOne(@)]
       IN  IF n.ClientName = ""
           THEN [cfg |-> n, err |-> "Manager missing client name. Try sandwich"]
           ELSE [cfg |-> n, err |-> "nil"]

\* int(math.Ceil(float64(a) / float64(b))), for counts a float64 holds exactly.
CeilDiv_Floor(a, b) == a \div b
CeilDiv(a, b) == IF a % b = 0 THEN a \div b ELSE (a \div b) + 1

\* sg.ConfigurationMu and mg.ConfigurationMu.
Mutexes == {"Sandwich.ConfigurationMu", "Manager.ConfigurationMu"}

\* WriteJSON: the read lock around the trace of the payload.
WriteJSONLocks ==
  <<<<"RLock", "Sandwich.ConfigurationMu">>, <<"RUnlock", "Sandwich.ConfigurationMu">>>>

\* Identify: the manager's lock is held (defer) across SendEvent and WriteJSON.
IdentifyLocks ==
  <<<<"RLock", "Manager.ConfigurationMu">>>> \o WriteJSONLocks
    \o <<<<"RUnlock", "Manager.ConfigurationMu">>>>

\* Resume: both locks are held (defer) across SendEvent and WriteJSON.
ResumeLocks ==
  <<<<"RLock", "Sandwich.ConfigurationMu">>, <<"RLock", "Manager.ConfigurationMu">>>>
    \o WriteJSONLocks
    \o <<<<"RUnlock", "Manager.ConfigurationMu">>, <<"RUnlock", "Sandwich.ConfigurationMu">>>>

\* NormalizeConfiguration
NormalizeConfigurationLocks ==
  <<<<"RLock", "Manager.ConfigurationMu">>, <<"RLock", "Sandwich.ConfigurationMu">>,
    <<"RUnlock", "Sandwich.ConfigurationMu">>, <<"RUnlock", "Manager.ConfigurationMu">>>>

\* RPCManagerUpdate
RPCManagerUpdateLocks ==
  <<<<"Lock", "Sandwich.ConfigurationMu">>, <<"Lock", "Manager.ConfigurationMu">>,
    <<"Unlock", "Manager.ConfigurationMu">>, <<"Unlock", "Sandwich.ConfigurationMu">>>>

\* The functions that run side by side, each as one goroutine.
LockOps ==
  [Identify |-> IdentifyLocks, Resume |-> ResumeLocks,
   NormalizeConfiguration |-> NormalizeConfigurationLocks,
   RPCManagerUpdate |-> RPCManagerUpdateLocks, Heartbeat |-> WriteJSONLocks]

Lockers == DOMAIN LockOps

\* The lock operation a function is about to make; none once it has returned.
Returned(t) == lpc[t] > Len(LockOps[t])
NextOp(t) == IF Returned(t) THEN <<"none", "none">> ELSE LockOps[t][lpc[t]]

\* Whether a caller holds a mutex, for reading or for writing.
Holds(t, m) == rw[m].r[t] > 0 \/ rw[m].w = t

\* sync.RWMutex.RLock returns when no writer holds the mutex and none is
\* inside Lock.
CanRLock(m) == rw[m].w = "none" /\ rw[m].pend = {}

\* sync.RWMutex.Lock returns when no writer and no reader holds the mutex.
CanLock(m) == rw[m].w = "none" /\ \A t \in Lockers : rw[m].r[t] = 0

\* No function has begun; both mutexes are free.
LockInit ==
  /\ lpc = [t \in Lockers |-> 1]
  /\ rw = [m \in Mutexes |-> [w |-> "none", pend |-> {}, r |-> [t \in Lockers |-> 0]]]

\* No chunk flow has run: the three maps are empty.
ChunkInit ==
  /\ MemberChunksComplete = 0
  /\ MemberChunkCallbacks = 0
  /\ MemberChunksCallback = 0
  /\ completed = [f \in Callers |-> FALSE]
  /\ wgDone = [f \in Callers |-> FALSE]
  /\ chanClosed = [f \in Callers |-> FALSE]
  /\ closedNil = FALSE
  /\ tickets = 0
  /\ rgmSent = 0
  /\ nchunks = 0
  /\ cpc = [k \in Callers |-> "idle"]
  /\ cloc = [k \in Callers |-> [wait |-> FALSE, ticket |-> FALSE, wg |-> 0,
                                 ret |-> "none", err |-> "none"]]

\* The zero value of discord.ReceivedPayload: Op 0 is GatewayOpDispatch.
ZeroMsg == [op |-> "Dispatch", s |-> 0, t |-> "", d |-> FALSE, sid |-> 0]

\* cx: the context the connection was dialed with is cancelled.
NoConn == [live |-> FALSE, reader |-> FALSE, cx |-> FALSE, sess |-> "none"]

\* Locals of a goroutine. rmsg/err hold what the last call returned; msg is the
\* frame Listen handed to OnEvent, cmsg the frame Connect took off the channel,
\* rch the channel readMessage received rmsg from, sent the handshake frame
\* Connect has sent (until Connect returns).
NoLoc == [conn |-> 0, ech |-> 0, mch |-> 0, msg |-> ZeroMsg, rmsg |-> ZeroMsg,
          cmsg |-> ZeroMsg, wsl |-> 0,
          sread |-> 0, sessread |-> 0, wait |-> 0, err |-> "nil",
          cause |-> "none", pre |-> FALSE, snapSess |-> 0, snapSeq |-> 0,
          final |-> FALSE, first |-> "none", sent |-> "none", rch |-> 0]

\* A handshake frame: the frame (op, fsess, fseq), what Connect had read when it
\* chose (sessread, sread), the stored values when the frame was built (ssess,
\* sseq), whether the identify bucket was waited on (gw), what the write did
\* (wr), and the Reconnect it belongs to (cause, pre) with the status after it.
NoHs == [task |-> "none", op |-> "none", sessread |-> 0, sread |-> 0,
         fsess |-> 0, fseq |-> 0, ssess |-> 0, sseq |-> 0, gw |-> FALSE,
         wr |-> "none", cause |-> "none", pre |-> FALSE, status |-> "Idle"]

\* No socket has just been dialed.
NoDial == [n |-> 0, afterClose |-> FALSE, cause |-> "none"]

\* No InvalidSession frame has just been handled.
NoReclose == [wasClosed |-> FALSE, done |-> FALSE, emitted |-> "none"]
NoInv == [done |-> FALSE, resumable |-> FALSE, preSess |-> 0, preSeq |-> 0,
          postSess |-> 0, postSeq |-> 0]

\* NewShard (and the ShardGroup that owns it, Idle until it is opened).
Init ==
  /\ Status = "Idle"
  /\ wsConn = 0
  /\ ctxDone = FALSE
  /\ HeartbeatActive = FALSE
  /\ seq = 0
  /\ sessionID = 0
  /\ Retries = CfgRetries
  /\ ErrorCh = 0
  /\ MessageCh = 0
  /\ conn = [c \in ConnIds |-> NoConn]
  /\ msgq = [c \in ConnIds |-> <<>>]
  /\ errq = [c \in ConnIds |-> "nil"]
  /\ nconn = 0
  /\ nframes = 0
  /\ nhbfail = 0
  /\ gwSeq = 0
  /\ pending = {}
  /\ pc = [t \in Tasks |-> IF t = "main" THEN "start" ELSE "idle"]
  /\ stk = [t \in Tasks |-> <<>>]
  /\ loc = [t \in Tasks |-> NoLoc]
  /\ sgStatus = "Idle"
  /\ sgError = "nil"
  /\ hs = NoHs
  /\ parentClosed = FALSE
  /\ lastDial = NoDial
  /\ lastInv = NoInv
  /\ lastRc = [task |-> "none", cause |-> "none", err |-> "nil", handled |-> FALSE]
  /\ ChunkInit
  /\ DispatchInit
  /\ ManagerInit
  /\ IdentifyInit
  /\ ConfigInit
  /\ LockInit
  /\ reclose = NoReclose
  /\ sendLog = [hb |-> "none", other |-> "none"]

\* ------------------------------------------------------------ control flow
Goto(t, l) == /\ pc' = [pc EXCEPT ![t] = l]
              /\ UNCHANGED stk

Call(t, l, r) == /\ pc' = [pc EXCEPT ![t] = l]
                 /\ stk' = [stk EXCEPT ![t] = <<r>> \o @]

Return(t) == /\ pc' = [pc EXCEPT ![t] = Head(stk[t])]
             /\ stk' = [stk EXCEPT ![t] = Tail(@)]

\* Groups of variables for UNCHANGED.
histV == <<hs, parentClosed, lastDial, lastInv, lastRc>>
sgV == <<sgStatus, sgError>>
netV == <<conn, msgq, errq, nconn, nframes, gwSeq>>
sessV == <<seq, sessionID, pending>>
chanV == <<ErrorCh, MessageCh>>

\* ------------------------------------------- the gateway and the reader task
\* The channels some goroutine can still receive from or send to: the shard's
\* fields and the channels goroutines hold in locals. A channel nothing refers
\* to is garbage; what is put on it is never seen, so it is kept empty.
ChanRefs(ech, mch, l) ==
  {ech, mch} \cup {l[t].ech : t \in Tasks} \cup {l[t].mch : t \in Tasks}
             \cup {l[t].conn : t \in Tasks}

Sweep(q, empty, refs) == [c \in ConnIds |-> IF c \in refs THEN q[c] ELSE empty]

\* The reader goroutine of FeedWebsocket takes a frame off the socket and puts
\* it on its messageCh. The gateway's side of the socket is not a program
\* state: a frame the gateway sends and the reader's push are one step.
Pushed(c, f) ==
  IF c \in ChanRefs(ErrorCh, MessageCh, loc) THEN [msgq EXCEPT ![c] = Append(@, f)]
  ELSE msgq

Reported(c, e) ==
  IF c \in ChanRefs(ErrorCh, MessageCh, loc) THEN [errq EXCEPT ![c] = e] ELSE errq

ReaderCanRead(c) ==
  /\ conn[c].live /\ conn[c].reader /\ ~conn[c].cx
  /\ Len(msgq[c]) < messageChannelBuffer

\* READY is the first dispatch of a session started by IDENTIFY: sequence 1,
\* carrying the session id (the gateway names a session after its connection).
ReadyFrame(c) == [op |-> "Dispatch", s |-> 1, t |-> "READY", d |-> FALSE, sid |-> c]

\* A later Dispatch frame carries the session's next sequence number.
GwDispatch(c) ==
  /\ ReaderCanRead(c) /\ nframes < MaxFrames
  /\ conn[c].sess # "none" /\ gwSeq >= 1
  /\ msgq' = Pushed(c, [op |-> "Dispatch", s |-> gwSeq + 1, t |-> "OTHER",
                        d |-> FALSE, sid |-> 0])
  /\ gwSeq' = gwSeq + 1
  /\ nframes' = nframes + 1
  /\ UNCHANGED <<Status, wsConn, ctxDone, HeartbeatActive, Retries, chanV, sessV,
                 conn, errq, nconn, nhbfail, chunkV, dispV, mgV, idV, cfgV, lockV, obsV, pc, stk, loc, sgV, histV>>

\* Every other frame carries no sequence number ("s": null decodes to 0).
\* "HeartbeatACK" also stands for Hello and for an opcode OnEvent does not
\* list: the three cases return without touching the shard's session state.
ControlOps == {"Heartbeat", "Reconnect", "InvalidSession", "HeartbeatACK",
               "VoiceStateUpdate"}

GwControl(c) ==
  /\ ReaderCanRead(c) /\ nframes < MaxFrames
  /\ \E op \in ControlOps, d \in BOOLEAN :
       /\ (d => op = "InvalidSession")
       /\ msgq' = Pushed(c, [op |-> op, s |-> 0, t |-> "", d |-> d, sid |-> 0])
  /\ nframes' = nframes + 1
  /\ UNCHANGED <<Status, wsConn, ctxDone, HeartbeatActive, Retries, chanV, sessV,
                 conn, errq, nconn, nhbfail, chunkV, dispV, mgV, idV, cfgV, lockV, obsV, gwSeq, pc, stk, loc, sgV, histV>>

\* conn.Read fails while the context is live: the reader puts the error on its
\* errorCh and exits. "fatal" is a close with code 4004 or 4010..4014; "read" is
\* a network error or a close with any other code.
ReadErrors == {"read", "fatal"}

GwClose(c) ==
  /\ conn[c].live /\ conn[c].reader /\ ~conn[c].cx
  /\ \E e \in ReadErrors : errq' = Reported(c, e)
  /\ conn' = [conn EXCEPT ![c] = NoConn]
  /\ UNCHANGED <<Status, wsConn, ctxDone, HeartbeatActive, Retries, chanV, sessV,
                 msgq, nconn, nframes, nhbfail, chunkV, dispV, mgV, idV, cfgV, lockV, obsV, gwSeq, pc, stk, loc, sgV, histV>>

\* A reader that reports the error of conn.Read whether or not its context
\* is done.
ReaderExit_Reports(c) ==
  /\ conn[c].reader
  /\ conn[c].cx \/ ~conn[c].live
  /\ errq' = Reported(c, "read")
  /\ conn' = [conn EXCEPT ![c] = NoConn]
  /\ UNCHANGED <<Status, wsConn, ctxDone, HeartbeatActive, Retries, chanV, sessV,
                 msgq, nconn, nframes, nhbfail, chunkV, dispV, mgV, idV, cfgV, lockV, obsV, gwSeq, pc, stk, loc, sgV, histV>>

\* conn.Read returns because the socket was closed by CloseWS or because the
\* context was cancelled (which closes the socket); the reader exits silently
\* when the context is done and reports the error otherwise.
ReaderExit(c) ==
  /\ conn[c].reader
  /\ conn[c].cx \/ ~conn[c].live
  /\ errq' = IF conn[c].cx THEN errq ELSE Reported(c, "read")
  /\ conn' = [conn EXCEPT ![c] = NoConn]
  /\ UNCHANGED <<Status, wsConn, ctxDone, HeartbeatActive, Retries, chanV, sessV,
                 msgq, nconn, nframes, nhbfail, chunkV, dispV, mgV, idV, cfgV, lockV, obsV, gwSeq, pc, stk, loc, sgV, histV>>

\* ------------------------------------------------------------- WriteJSON
\* What wsConn.Write does for the caller: "skip" when sh.wsConn is nil (WriteJSON
\* then returns nil without writing), "err" on a closed socket or a cancelled
\* context, "ok" otherwise.
\* SendEvent hands WriteJSON the opcode and, as i, the *SentPayload it filled.
SentPayload(op) == [dyn |-> "*discord.SentPayload", val |-> op]

GatewayOpHeartbeat == [dyn |-> "discord.GatewayOp", val |-> "Heartbeat"]

\* `if i != discord.GatewayOpHeartbeat { WaitForBucket(...) }`: the payload i,
\* an interface value, is compared with the opcode constant.
WaitsForBucket(op, i) == i # GatewayOpHeartbeat

\* How SendEvent(op, ...) treats the send bucket.
How(op) == IF WaitsForBucket(op, SentPayload(op)) THEN "waited" ELSE "bypassed"

\* sendLog after SendEvent(op, ...).
Sent(op) ==
  IF op = "Heartbeat" THEN [sendLog EXCEPT !.hb = How(op)]
  ELSE [sendLog EXCEPT !.other = How(op)]

WriteResult ==
  IF wsConn = 0 THEN "skip"
  ELSE IF ctxDone \/ ~conn[wsConn].live THEN "err"
  ELSE "ok"

\* --------------------------------------------------------------- CloseWS
ClosedWS == [conn EXCEPT ![wsConn].live = FALSE]

\* ------------------------------------------------------------ readMessage
\* The non-blocking poll of sh.ErrorCh, then the capture of both channels.
ReadPoll(t) ==
  /\ pc[t] = "rm_poll"
  /\ IF ErrorCh # 0 /\ errq[ErrorCh] # "nil"
       THEN /\ loc' = [loc EXCEPT ![t].err = errq[ErrorCh], ![t].rmsg = ZeroMsg]
            /\ errq' = [errq EXCEPT ![ErrorCh] = "nil"]
            /\ Return(t)
       ELSE /\ loc' = [loc EXCEPT ![t].ech = ErrorCh, ![t].mch = MessageCh]
            /\ errq' = errq
            /\ Goto(t, "rm_wait")
  /\ UNCHANGED <<Status, wsConn, ctxDone, HeartbeatActive, Retries, chanV, sessV,
                 conn, msgq, nconn, nframes, nhbfail, chunkV, dispV, mgV, idV, cfgV, lockV, obsV, gwSeq, sgV, histV>>

\* The blocking select on the captured channels (a nil channel is never ready;
\* when both are ready Go picks either).
ReadWait(t) ==
  /\ pc[t] = "rm_wait"
  /\ \/ /\ loc[t].ech # 0 /\ errq[loc[t].ech] # "nil"
        /\ loc' = [loc EXCEPT ![t].err = errq[loc[t].ech], ![t].rmsg = ZeroMsg,
                               ![t].ech = 0, ![t].mch = 0]
        /\ errq' = Sweep([errq EXCEPT ![loc[t].ech] = "nil"], "nil",
                         ChanRefs(ErrorCh, MessageCh, loc'))
        /\ msgq' = Sweep(msgq, <<>>, ChanRefs(ErrorCh, MessageCh, loc'))
     \/ /\ loc[t].mch # 0 /\ msgq[loc[t].mch] # <<>>
        /\ loc' = [loc EXCEPT ![t].err = "nil", ![t].rmsg = Head(msgq[loc[t].mch]),
                               ![t].ech = 0, ![t].mch = 0, ![t].rch = loc[t].mch]
        /\ msgq' = Sweep([msgq EXCEPT ![loc[t].mch] = Tail(@)], <<>>,
                         ChanRefs(ErrorCh, MessageCh, loc'))
        /\ errq' = Sweep(errq, "nil", ChanRefs(ErrorCh, MessageCh, loc'))
  /\ Return(t)
  /\ UNCHANGED <<Status, wsConn, ctxDone, HeartbeatActive, Retries, chanV, sessV,
                 conn, nconn, nframes, nhbfail, chunkV, dispV, mgV, idV, cfgV, lockV, obsV, gwSeq, sgV, histV>>

\* ------------------------------------------------------------ Shard.Close
CloseCancel(t) ==
  /\ pc[t] = "cl_cancel"
  /\ ctxDone' = TRUE
  /\ conn' = [c \in ConnIds |->
                IF conn[c].live \/ conn[c].reader THEN [conn[c] EXCEPT !.cx = TRUE]
                ELSE conn[c]]
  /\ Goto(t, "cl_ws")
  /\ UNCHANGED <<Status, wsConn, HeartbeatActive, Retries, chanV, sessV, msgq, errq,
                 nconn, nframes, nhbfail, chunkV, dispV, mgV, idV, cfgV, lockV, obsV, gwSeq, loc, sgV, histV>>

CloseSocket(t) ==
  /\ pc[t] = "cl_ws"
  /\ IF wsConn # 0
       THEN conn' = ClosedWS /\ wsConn' = 0
       ELSE UNCHANGED <<conn, wsConn>>
  /\ Goto(t, "cl_status")
  /\ UNCHANGED <<Status, ctxDone, HeartbeatActive, Retries, chanV, sessV, msgq, errq,
                 nconn, nframes, nhbfail, chunkV, dispV, mgV, idV, cfgV, lockV, obsV, gwSeq, loc, sgV, histV>>

\* SetStatus stores the status and publishes a SHARD_STATUS packet with it,
\* whatever the status was before.
StatusPacket(old, new) == "SHARD_STATUS"

\* sh.SetStatus(structs.ShardClosed): the last statement of Close.
CloseStatus(t) ==
  /\ pc[t] = "cl_status"
  /\ Status' = "Closed"
  /\ reclose' = IF Head(stk[t]) = "mg_closed"
                  THEN [reclose EXCEPT !.done = TRUE,
                                       !.emitted = StatusPacket(Status, "Closed")]
                  ELSE reclose
  /\ Return(t)
  /\ UNCHANGED <<wsConn, ctxDone, HeartbeatActive, Retries, chanV, sessV, netV,
                 nhbfail, chunkV, dispV, mgV, idV, cfgV, lockV, sendLog, loc, sgV, histV>>

\* ---------------------------------------------------------- Shard.Connect
\* SetStatus(ShardWaiting), then "If the context has canceled, create new
\* context."
ConnectWaiting(t) ==
  /\ pc[t] = "cn_wait"
  /\ Status' = "Waiting"
  /\ ctxDone' = FALSE
  /\ loc' = [loc EXCEPT ![t].err = "nil"]
  /\ Goto(t, "cn_conn")
  /\ UNCHANGED <<wsConn, HeartbeatActive, Retries, chanV, sessV, netV,
                 nhbfail, chunkV, dispV, mgV, idV, cfgV, lockV, obsV, sgV, histV>>

\* SetStatus(ShardConnecting) and the test sh.wsConn == nil; with a socket set
\* ("Reusing websocket connection") Connect goes on to read HELLO.
ConnectConnecting(t) ==
  /\ pc[t] = "cn_conn"
  /\ Status' = "Connecting"
  /\ IF wsConn = 0 THEN Goto(t, "cn_dial") ELSE Call(t, "rm_poll", "cn_hello2")
  /\ UNCHANGED <<wsConn, ctxDone, HeartbeatActive, Retries, chanV, sessV, netV,
                 nhbfail, chunkV, dispV, mgV, idV, cfgV, lockV, obsV, loc, sgV, histV>>

\* FeedWebsocket: websocket.Dial fails (always, on a cancelled context), or it
\* succeeds, sh.wsConn is set and the reader goroutine starts. The gateway
\* sends HELLO as the first frame of every connection; the reader's push of it
\* is folded into the dial.
ConnectDial(t) ==
  /\ pc[t] = "cn_dial"
  /\ \/ /\ loc' = [loc EXCEPT ![t].err = IF ctxDone THEN "canceled" ELSE "dial"]
        /\ Goto(t, "cn_ret")
        /\ UNCHANGED <<wsConn, conn, msgq, nconn, lastDial>>
     \/ /\ ~ctxDone /\ nconn < MaxConn
        /\ nconn' = nconn + 1
        /\ conn' = [conn EXCEPT ![nconn + 1] =
                      [live |-> TRUE, reader |-> TRUE, cx |-> FALSE, sess |-> "none"]]
        /\ msgq' = [msgq EXCEPT ![nconn + 1] = <<[ZeroMsg EXCEPT !.op = "Hello"]>>]
        /\ wsConn' = nconn + 1
        /\ loc' = [loc EXCEPT ![t].conn = nconn + 1]
        /\ lastDial' = [n |-> nconn + 1, afterClose |-> parentClosed,
                        cause |-> loc[t].cause]
        /\ Goto(t, "cn_chan")
  /\ UNCHANGED <<Status, ctxDone, HeartbeatActive, Retries, chanV, sessV, errq,
                 nframes, nhbfail, chunkV, dispV, mgV, idV, cfgV, lockV, obsV, gwSeq, sgV, hs, parentClosed, lastInv, lastRc>>

\* sh.ErrorCh = errorCh; sh.MessageCh = messageCh; then readMessage for HELLO.
ConnectChannels(t) ==
  /\ pc[t] = "cn_chan"
  /\ ErrorCh' = loc[t].conn
  /\ MessageCh' = loc[t].conn
  /\ lastDial' = NoDial
  /\ loc' = [loc EXCEPT ![t].conn = 0]
  /\ msgq' = Sweep(msgq, <<>>, ChanRefs(ErrorCh', MessageCh', loc'))
  /\ errq' = Sweep(errq, "nil", ChanRefs(ErrorCh', MessageCh', loc'))
  /\ Call(t, "rm_poll", "cn_hello2")
  /\ UNCHANGED <<Status, wsConn, ctxDone, HeartbeatActive, Retries, sessV, conn,
                 nconn, nframes, gwSeq, nhbfail, chunkV, dispV, mgV, idV, cfgV, lockV, obsV, sgV, hs, parentClosed, lastInv,
                 lastRc>>

\* The first free heartbeat goroutine slot ("none" when both run).
FreeHb ==
  IF pc["hb1"] = "idle" THEN "hb1" ELSE IF pc["hb2"] = "idle" THEN "hb2" ELSE "none"

\* After HELLO: the heartbeat timestamps and ticker are set, and
\* `if sh.HeartbeatActive.IsNotSet() { go sh.Heartbeat() }`.
ConnectHello(t) ==
  /\ pc[t] = "cn_hello2"
  /\ IF loc[t].err # "nil"
       THEN Goto(t, "cn_ret")
       ELSE IF ~HeartbeatActive /\ FreeHb # "none"
         THEN /\ pc' = [pc EXCEPT ![t] = "cn_hs", ![FreeHb] = "hb_start"]
              /\ UNCHANGED stk
         ELSE Goto(t, "cn_hs")
  /\ loc' = [loc EXCEPT ![t].rmsg = ZeroMsg]
  /\ UNCHANGED <<Status, wsConn, ctxDone, HeartbeatActive, Retries, chanV, sessV,
                 netV, nhbfail, chunkV, dispV, mgV, idV, cfgV, lockV, obsV, sgV, histV>>

\* "If we have no session ID or the sequence is 0, we can identify instead of
\* resuming."
ChooseIdentify_And(sess, sq) == sess = 0 /\ sq = 0

ChooseIdentify_Always(sess, sq) == TRUE

ChooseIdentify(sess, sq) == sess = 0 \/ sq = 0

\* seq := atomic.LoadInt64(sh.seq); sessionID := sh.sessionID; the choice.
ConnectChoose(t) ==
  /\ pc[t] = "cn_hs"
  /\ loc' = [loc EXCEPT ![t].sread = seq, ![t].sessread = sessionID]
  /\ Goto(t, IF ChooseIdentify(sessionID, seq) THEN "cn_identify" ELSE "cn_resume")
  /\ UNCHANGED <<Status, wsConn, ctxDone, HeartbeatActive, Retries, chanV, sessV,
                 netV, nhbfail, chunkV, dispV, mgV, idV, cfgV, lockV, obsV, sgV, histV>>

\* The payload of Resume(): the stored session id and sequence.
ResumeFrame(t) == [sess |-> sessionID, sq |-> seq]

\* Identify(): wait on the identify bucket, then SendEvent(GatewayOpIdentify).
\* The gateway starts a new session on the connection that receives it and
\* answers with READY, which the reader puts on its messageCh.
ConnectIdentify(t) ==
  /\ pc[t] = "cn_identify"
  /\ hs' = [task |-> t, op |-> "Identify", sessread |-> loc[t].sessread,
            sread |-> loc[t].sread, fsess |-> 0, fseq |-> 0,
            ssess |-> sessionID, sseq |-> seq, gw |-> TRUE,
            wr |-> WriteResult, cause |-> loc[t].cause, pre |-> loc[t].pre,
            status |-> Status]
  /\ IF WriteResult = "ok"
       THEN /\ conn' = [conn EXCEPT ![wsConn].sess = "new"]
            /\ IF ReaderCanRead(wsConn)
                 THEN gwSeq' = 1 /\ msgq' = Pushed(wsConn, ReadyFrame(wsConn))
                 ELSE gwSeq' = 0 /\ msgq' = msgq
       ELSE UNCHANGED <<conn, gwSeq, msgq>>
  /\ IF WriteResult = "err"
       THEN /\ loc' = [loc EXCEPT ![t].err = "write", ![t].sread = 0, ![t].sessread = 0,
                               ![t].sent = "Identify"]
            /\ Goto(t, "cn_ret")
       ELSE /\ loc' = [loc EXCEPT ![t].sread = 0, ![t].sessread = 0,
                               ![t].sent = "Identify"]
            /\ Goto(t, "cn_first")
  /\ sendLog' = Sent("Identify")
  /\ UNCHANGED <<Status, wsConn, ctxDone, HeartbeatActive, Retries, chanV, sessV,
                 errq, nconn, nframes, nhbfail, chunkV, dispV, mgV, idV, cfgV, lockV, reclose, sgV, parentClosed,
                 lastDial, lastInv, lastRc>>

\* Resume(): SendEvent(GatewayOpResume) and, when it returns nil,
\* SetStatus(ShardReady) ("We will assume the bot is ready").
ConnectResume(t) ==
  /\ pc[t] = "cn_resume"
  /\ hs' = [task |-> t, op |-> "Resume", sessread |-> loc[t].sessread,
            sread |-> loc[t].sread, fsess |-> ResumeFrame(t).sess,
            fseq |-> ResumeFrame(t).sq, ssess |-> sessionID, sseq |-> seq,
            gw |-> FALSE, wr |-> WriteResult, cause |-> loc[t].cause,
            pre |-> loc[t].pre,
            status |-> IF WriteResult = "err" THEN Status ELSE "Ready"]
  /\ IF WriteResult = "ok"
       THEN conn' = [conn EXCEPT ![wsConn].sess = "resumed"]
       ELSE conn' = conn
  /\ IF WriteResult = "err"
       THEN /\ loc' = [loc EXCEPT ![t].err = "write", ![t].sread = 0, ![t].sessread = 0,
                               ![t].sent = "Resume"]
            /\ Status' = Status
            /\ Goto(t, "cn_ret")
       ELSE /\ loc' = [loc EXCEPT ![t].sread = 0, ![t].sessread = 0,
                               ![t].sent = "Resume"]
            /\ Status' = "Ready"
            /\ Goto(t, "cn_first")
  /\ sendLog' = Sent("Resume")
  /\ UNCHANGED <<wsConn, ctxDone, HeartbeatActive, Retries, chanV, sessV,
                 msgq, errq, nconn, nframes, nhbfail, chunkV, dispV, mgV, idV, cfgV, lockV, reclose, gwSeq, sgV,
                 parentClosed, lastDial, lastInv, lastRc>>

\* What Connect's err holds after `case <-t.C:`: the arm is empty, so err is
\* what the last assignment before the select left in it.
AfterTimeout(err) == err

\* The wait for the first event: an error, a frame (taken off the channel to be
\* requeued) or the gatewayConnectTimeout ticker. loc[t].first notes which arm
\* ran until Connect returns.
ConnectFirstEvent(t) ==
  /\ pc[t] = "cn_first"
  /\ \/ /\ ErrorCh # 0 /\ errq[ErrorCh] # "nil"
        /\ loc' = [loc EXCEPT ![t].err = errq[ErrorCh], ![t].first = "error"]
        /\ errq' = [errq EXCEPT ![ErrorCh] = "nil"]
        /\ msgq' = msgq
        /\ Goto(t, "cn_ret")
     \/ /\ MessageCh # 0 /\ msgq[MessageCh] # <<>>
        /\ loc' = [loc EXCEPT ![t].cmsg = Head(msgq[MessageCh]), ![t].mch = MessageCh,
                               ![t].first = "frame"]
        /\ msgq' = [msgq EXCEPT ![MessageCh] = Tail(@)]
        /\ errq' = errq
        /\ Goto(t, "cn_requeue")
     \/ /\ loc' = [loc EXCEPT ![t].err = AfterTimeout(loc[t].err), ![t].first = "timeout"]
        /\ UNCHANGED <<msgq, errq>>
        /\ Goto(t, "cn_ret")
  /\ hs' = IF hs.task = t THEN NoHs ELSE hs
  /\ UNCHANGED <<Status, wsConn, ctxDone, HeartbeatActive, Retries, chanV, sessV,
                 conn, nconn, nframes, nhbfail, chunkV, dispV, mgV, idV, cfgV, lockV, obsV, gwSeq, sgV, parentClosed, lastDial,
                 lastInv, lastRc>>

\* messagech <- msg: "Requeue event so main loop can handle it".
ConnectRequeue(t) ==
  /\ pc[t] = "cn_requeue"
  /\ Len(msgq[loc[t].mch]) < messageChannelBuffer
  /\ loc' = [loc EXCEPT ![t].cmsg = ZeroMsg, ![t].mch = 0]
  /\ msgq' = Sweep([msgq EXCEPT ![loc[t].mch] = Append(@, loc[t].cmsg)], <<>>,
                   ChanRefs(ErrorCh, MessageCh, loc'))
  /\ errq' = Sweep(errq, "nil", ChanRefs(ErrorCh, MessageCh, loc'))
  /\ Goto(t, "cn_ret")
  /\ UNCHANGED <<Status, wsConn, ctxDone, HeartbeatActive, Retries, chanV, sessV,
                 conn, nconn, nframes, nhbfail, chunkV, dispV, mgV, idV, cfgV, lockV, obsV, gwSeq, sgV, histV>>

\* Connect returns; its deferred CloseWS runs when err != nil and a socket is set.
ConnectReturn(t) ==
  /\ pc[t] = "cn_ret"
  /\ IF loc[t].err # "nil" /\ wsConn # 0
       THEN conn' = ClosedWS /\ wsConn' = 0
       ELSE UNCHANGED <<conn, wsConn>>
  /\ hs' = IF hs.task = t THEN NoHs ELSE hs
  /\ loc' = [loc EXCEPT ![t].first = "none", ![t].sent = "none"]
  /\ Return(t)
  /\ UNCHANGED <<Status, ctxDone, HeartbeatActive, Retries, chanV, sessV, msgq, errq,
                 nconn, nframes, nhbfail, chunkV, dispV, mgV, idV, cfgV, lockV, obsV, gwSeq, sgV, parentClosed, lastDial,
                 lastInv, lastRc>>

\* -------------------------------------------------------- Shard.Reconnect
\* What the caller of Reconnect notes for the history: why it reconnects, and
\* whether a session (session id and sequence) is stored at that moment.
EnterReconnect(t, cause) ==
  [loc EXCEPT ![t].cause = cause, ![t].pre = (sessionID # 0 /\ seq # 0),
              ![t].snapSess = sessionID, ![t].snapSeq = seq,
              ![t].wait = Second, ![t].final = FALSE, ![t].err = "nil",
              ![t].msg = IF cause \in {"invalid_t", "invalid_f"} THEN loc[t].msg
                         ELSE ZeroMsg]

\* Reconnect begins with wait := time.Second; sh.Close(code).
CallReconnect(t, r) ==
  /\ pc' = [pc EXCEPT ![t] = "cl_cancel"]
  /\ stk' = [stk EXCEPT ![t] = <<"rc_status", r>> \o @]

\* SetStatus(ShardReconnecting), then the loop's err := sh.Connect().
ReconnectStatus(t) ==
  /\ pc[t] = "rc_status"
  /\ Status' = "Reconnecting"
  /\ Call(t, "cn_wait", "rc_after")
  /\ UNCHANGED <<wsConn, ctxDone, HeartbeatActive, Retries, chanV, sessV, netV,
                 nhbfail, chunkV, dispV, mgV, idV, cfgV, lockV, obsV, loc, sgV, histV>>

\* wait *= 2; if wait > maxReconnectWait { wait = maxReconnectWait }
\* (wait is a time.Duration, maxReconnectWait the untyped constant 600).
NextWait(w) == IF w * 2 > maxReconnectWait THEN maxReconnectWait ELSE w * 2

\* After Connect: success resets the budget and returns. A failure decrements
\* it; at zero the final attempt is made (sh.Close(code); err = sh.Connect()),
\* otherwise the loop sleeps for wait and connects again.
ReconnectAfter(t) ==
  /\ pc[t] = "rc_after"
  /\ IF loc[t].err = "nil"
       THEN /\ Retries' = CfgRetries
            /\ loc' = [loc EXCEPT ![t].wait = 0, ![t].final = FALSE]
            /\ Return(t)
       ELSE /\ Retries' = Retries - 1
            /\ IF Retries - 1 <= 0
                 THEN /\ loc' = [loc EXCEPT ![t].final = TRUE]
                      /\ pc' = [pc EXCEPT ![t] = "cl_cancel"]
                      /\ stk' = [stk EXCEPT ![t] = <<"cn_wait", "rc_final_ret">> \o @]
                 ELSE /\ loc' = [loc EXCEPT ![t].wait = NextWait(@)]
                      /\ Call(t, "cn_wait", "rc_after")
  /\ UNCHANGED <<Status, wsConn, ctxDone, HeartbeatActive, chanV, sessV, netV,
                 nhbfail, chunkV, dispV, mgV, idV, cfgV, lockV, obsV, sgV, histV>>

\* The final attempt returned: return err.
ReconnectFinalReturn(t) ==
  /\ pc[t] = "rc_final_ret"
  /\ lastRc' = IF loc[t].err = "nil" THEN lastRc
               ELSE [task |-> t, cause |-> loc[t].cause, err |-> loc[t].err,
                     handled |-> FALSE]
  /\ loc' = [loc EXCEPT ![t].wait = 0, ![t].final = FALSE]
  /\ Return(t)
  /\ UNCHANGED <<Status, wsConn, ctxDone, HeartbeatActive, Retries, chanV, sessV,
                 netV, nhbfail, chunkV, dispV, mgV, idV, cfgV, lockV, obsV, sgV, hs, parentClosed, lastDial, lastInv>>

\* ----------------------------------------------- ShardGroup.Open and Close
\* ShardGroup.Open connects the shard and then runs `go shard.Open()`.
GroupOpen ==
  /\ pc["main"] = "start"
  /\ sgStatus' = "Connecting"
  /\ Call("main", "cn_wait", "open_ret")
  /\ UNCHANGED <<Status, wsConn, ctxDone, HeartbeatActive, Retries, chanV, sessV,
                 netV, nhbfail, chunkV, dispV, mgV, idV, cfgV, lockV, obsV, loc, sgError, histV>>

\* The first Connect returned: on an error the group records it and closes.
GroupOpened ==
  /\ pc["main"] = "open_ret"
  /\ IF loc["main"].err = "nil"
       THEN /\ Goto("main", "ls_loop")
            /\ sgError' = sgError
       ELSE /\ sgError' = loc["main"].err
            /\ Call("main", "cl_cancel", "open_failed")
  /\ UNCHANGED <<Status, wsConn, ctxDone, HeartbeatActive, Retries, chanV, sessV,
                 netV, nhbfail, chunkV, dispV, mgV, idV, cfgV, lockV, obsV, loc, sgStatus, histV>>

GroupOpenFailed ==
  /\ pc["main"] = "open_failed"
  /\ sgStatus' = "Erroring"
  /\ loc' = [loc EXCEPT !["main"] = NoLoc]
  /\ Goto("main", "done")
  /\ UNCHANGED <<Status, wsConn, ctxDone, HeartbeatActive, Retries, chanV, sessV,
                 netV, nhbfail, chunkV, dispV, mgV, idV, cfgV, lockV, obsV, sgError, histV>>

\* The parent closes the group: ShardGroup.Close calls Shard.Close.
GroupClose ==
  /\ pc["closer"] = "idle"
  /\ pc["main"] # "start"
  /\ Call("closer", "cl_cancel", "sg_closed")
  /\ UNCHANGED <<Status, wsConn, ctxDone, HeartbeatActive, Retries, chanV, sessV,
                 netV, nhbfail, chunkV, dispV, mgV, idV, cfgV, lockV, obsV, loc, sgV, histV>>

GroupClosed ==
  /\ pc["closer"] = "sg_closed"
  /\ sgStatus' = "Closed"
  /\ parentClosed' = TRUE
  /\ Goto("closer", "done")
  /\ UNCHANGED <<Status, wsConn, ctxDone, HeartbeatActive, Retries, chanV, sessV,
                 netV, nhbfail, chunkV, dispV, mgV, idV, cfgV, lockV, obsV, loc, sgError, hs, lastDial, lastInv, lastRc>>

\* Manager.Close closes every shard group of the manager, also one that has
\* closed before: ShardGroup.Close calls Shard.Close again. The manager is
\* closed after the read loop of the shard has returned.
ManagerClose ==
  /\ pc["closer"] = "done"
  /\ pc["main"] = "done"
  /\ reclose = NoReclose
  /\ reclose' = [reclose EXCEPT !.wasClosed = (Status = "Closed" /\ wsConn = 0)]
  /\ Call("closer", "cl_cancel", "mg_closed")
  /\ UNCHANGED <<Status, wsConn, ctxDone, HeartbeatActive, Retries, chanV, sessV,
                 netV, nhbfail, chunkV, dispV, mgV, idV, cfgV, lockV, sendLog, loc, sgV, histV>>

ManagerClosed ==
  /\ pc["closer"] = "mg_closed"
  /\ sgStatus' = "Closed"
  /\ reclose' = NoReclose
  /\ Goto("closer", "done")
  /\ UNCHANGED <<Status, wsConn, ctxDone, HeartbeatActive, Retries, chanV, sessV,
                 netV, nhbfail, chunkV, dispV, mgV, idV, cfgV, lockV, sendLog, loc, sgError, histV>>

\* ------------------------------------------------- Shard.Open and Listen
\* The caller of a Reconnect whose final attempt failed has taken its next step.
Handled(t) == IF lastRc.task = t THEN [lastRc EXCEPT !.handled = TRUE] ELSE lastRc

\* Listen's wsConn := sh.wsConn (at its start, and after OnEvent when it
\* differs) and the head of the loop: with a done context Listen returns nil
\* and Open returns; else readMessage.
ListenLoop ==
  /\ pc["main"] = "ls_loop"
  /\ loc' = [loc EXCEPT !["main"] = [NoLoc EXCEPT !.wsl = wsConn]]
  /\ lastRc' = Handled("main")
  /\ lastInv' = NoInv
  /\ IF ctxDone
       THEN Goto("main", "done")
       ELSE Call("main", "rm_poll", "ls_msg")
  /\ UNCHANGED <<Status, wsConn, ctxDone, HeartbeatActive, Retries, chanV, sessV,
                 netV, nhbfail, chunkV, dispV, mgV, idV, cfgV, lockV, obsV, sgV, hs, parentClosed, lastDial>>

\* The close codes of the switch in Listen (4004, 4010, 4011, 4012, 4013, 4014).
IsFatal(e) == e = "fatal"

\* readMessage returned. A frame goes to OnEvent. An error is classified:
\* a fatal close code closes the group; otherwise, on the same connection,
\* Reconnect; on a replaced connection the loop adopts it and goes on to
\* sh.OnEvent(msg) with the msg readMessage returned beside the error.
ListenMessage ==
  /\ pc["main"] = "ls_msg"
  /\ IF loc["main"].err = "nil"
       THEN /\ loc' = [loc EXCEPT !["main"].msg = loc["main"].rmsg,
                                  !["main"].rmsg = ZeroMsg]
            /\ Goto("main", "on_event")
            /\ sgError' = sgError
       ELSE IF IsFatal(loc["main"].err)
         THEN /\ sgError' = loc["main"].err
              /\ loc' = loc
              /\ Call("main", "cl_cancel", "ls_fatal")
         ELSE IF loc["main"].wsl = wsConn
           THEN /\ loc' = EnterReconnect("main", "readerr")
                /\ CallReconnect("main", "op_check")
                /\ sgError' = sgError
           ELSE /\ loc' = [loc EXCEPT !["main"].wsl = wsConn, !["main"].err = "nil",
                                      !["main"].msg = loc["main"].rmsg]
                /\ Goto("main", "on_event")
                /\ sgError' = sgError
  /\ UNCHANGED <<Status, wsConn, ctxDone, HeartbeatActive, Retries, chanV, sessV,
                 netV, nhbfail, chunkV, dispV, mgV, idV, cfgV, lockV, obsV, sgStatus, histV>>

\* After sh.ShardGroup.Close(): SetStatus(ShardGroupError); return err, and
\* Open returns when the context is done.
ListenFatal ==
  /\ pc["main"] = "ls_fatal"
  /\ sgStatus' = "Erroring"
  /\ loc' = [loc EXCEPT !["main"] = NoLoc]
  /\ Goto("main", IF ctxDone THEN "done" ELSE "ls_loop")
  /\ UNCHANGED <<Status, wsConn, ctxDone, HeartbeatActive, Retries, chanV, sessV,
                 netV, nhbfail, chunkV, dispV, mgV, idV, cfgV, lockV, obsV, sgError, histV>>

\* Listen returns what Reconnect returned. Open returns on context.Canceled or
\* a done context, else it listens again.
OpenCheck ==
  /\ pc["main"] = "op_check"
  /\ lastRc' = Handled("main")
  /\ loc' = [loc EXCEPT !["main"] = NoLoc]
  /\ Goto("main", IF loc["main"].err = "canceled" \/ ctxDone THEN "done" ELSE "ls_loop")
  /\ UNCHANGED <<Status, wsConn, ctxDone, HeartbeatActive, Retries, chanV, sessV,
                 netV, nhbfail, chunkV, dispV, mgV, idV, cfgV, lockV, obsV, sgV, hs, parentClosed, lastDial, lastInv>>

\* ----------------------------------------------------------- Shard.OnEvent
\* The opcodes whose case returns from OnEvent before the final
\* atomic.StoreInt64(sh.seq, msg.Sequence).
ReturnsEarly(op) == op \in {"Hello", "Reconnect", "HeartbeatACK", "Unknown"}

\* The InvalidSession case: a non-resumable session is forgotten.
ClearedSession_KeepSeq(resumable, sess, sq) ==
  IF resumable THEN [sess |-> sess, sq |-> sq] ELSE [sess |-> 0, sq |-> sq]

ClearedSession(resumable, sess, sq) ==
  IF resumable THEN [sess |-> sess, sq |-> sq] ELSE [sess |-> 0, sq |-> 0]

\* The switch of OnEvent up to the first call that blocks or reconnects.
OnEvent ==
  /\ pc["main"] = "on_event"
  /\ LET m == loc["main"].msg IN
     CASE m.op = "Heartbeat" ->
            \* SendEvent(GatewayOpHeartbeat, seq); Reconnect when it fails.
            /\ sendLog' = Sent("Heartbeat")
            /\ IF WriteResult = "err"
                 THEN /\ loc' = EnterReconnect("main", "hbreq")
                      /\ CallReconnect("main", "ls_loop")
                      /\ UNCHANGED <<seq, sessionID, pending>>
                 ELSE /\ seq' = m.s
                      /\ Goto("main", "ls_loop")
                      /\ UNCHANGED <<loc, sessionID, pending>>
       [] m.op = "InvalidSession" ->
            /\ sessionID' = ClearedSession(m.d, sessionID, seq).sess
            /\ seq' = ClearedSession(m.d, sessionID, seq).sq
            /\ loc' = [EnterReconnect("main", IF m.d THEN "invalid_t" ELSE "invalid_f")
                         EXCEPT !["main"].snapSess = sessionID',
                                !["main"].snapSeq = seq',
                                !["main"].pre = (sessionID # 0 /\ seq # 0)]
            /\ CallReconnect("main", "oe_store")
            /\ UNCHANGED <<pending, sendLog>>
       [] m.op = "Reconnect" ->
            /\ loc' = EnterReconnect("main", "opreconnect")
            /\ CallReconnect("main", "ls_loop")
            /\ UNCHANGED <<seq, sessionID, pending, sendLog>>
       [] m.op = "Dispatch" ->
            \* go exec(); then the store of the sequence.
            /\ pending' = IF m.t = "READY" THEN pending \cup {m.sid} ELSE pending
            /\ seq' = m.s
            /\ Goto("main", "ls_loop")
            /\ UNCHANGED <<loc, sessionID, sendLog>>
       [] OTHER ->
            /\ seq' = IF ReturnsEarly(m.op) THEN seq ELSE m.s
            /\ Goto("main", "ls_loop")
            /\ UNCHANGED <<loc, sessionID, pending, sendLog>>
  /\ UNCHANGED <<Status, wsConn, ctxDone, HeartbeatActive, Retries, chanV, netV,
                 nhbfail, chunkV, dispV, mgV, idV, cfgV, lockV, reclose, sgV, histV>>

\* The InvalidSession case after Reconnect returned: it does not return, so
\* OnEvent ends with atomic.StoreInt64(sh.seq, msg.Sequence).
OnEventStore ==
  /\ pc["main"] = "oe_store"
  /\ seq' = loc["main"].msg.s
  /\ lastInv' = [done |-> TRUE, resumable |-> loc["main"].msg.d,
                 preSess |-> loc["main"].snapSess, preSeq |-> loc["main"].snapSeq,
                 postSess |-> sessionID, postSeq |-> seq']
  /\ lastRc' = Handled("main")
  /\ Goto("main", "ls_loop")
  /\ UNCHANGED <<Status, wsConn, ctxDone, HeartbeatActive, Retries, chanV, sessionID,
                 pending, netV, nhbfail, chunkV, dispV, mgV, idV, cfgV, lockV, obsV, loc, sgV, hs, parentClosed, lastDial>>

\* The READY handler run by `go exec()` stores the session id of the event
\* and marks the shard Ready.
StateReady ==
  /\ \E sid \in pending :
       /\ sessionID' = sid
       /\ pending' = pending \ {sid}
  /\ Status' = "Ready"
  /\ UNCHANGED <<wsConn, ctxDone, HeartbeatActive, Retries, chanV, seq,
                 netV, nhbfail, chunkV, dispV, mgV, idV, cfgV, lockV, obsV, pc, stk, loc, sgV, histV>>

\* --------------------------------------------------------- Shard.Heartbeat
\* sh.HeartbeatActive.Set().
HeartbeatStart(h) ==
  /\ pc[h] = "hb_start"
  /\ HeartbeatActive' = TRUE
  /\ Goto(h, "hb_loop")
  /\ UNCHANGED <<Status, wsConn, ctxDone, Retries, chanV, sessV, netV, nhbfail, chunkV, dispV, mgV, idV, cfgV, lockV, obsV,
                 loc, sgV, histV>>

\* case <-sh.ctx.Done(): return (the deferred UnSet runs).
HeartbeatDone(h) ==
  /\ pc[h] \in {"hb_loop", "hb_exit"}
  /\ pc[h] = "hb_loop" => ctxDone
  /\ HeartbeatActive' = FALSE
  /\ lastRc' = Handled(h)
  /\ Goto(h, "idle")
  /\ loc' = [loc EXCEPT ![h] = NoLoc]
  /\ UNCHANGED <<Status, wsConn, ctxDone, Retries, chanV, sessV, netV, nhbfail, chunkV, dispV, mgV, idV, cfgV, lockV, obsV,
                 sgV, hs, parentClosed, lastDial, lastInv>>

\* case <-heartbeater.C with a send that succeeds and a recent ack:
\* SendEvent(GatewayOpHeartbeat, seq), then the timestamps, which are not
\* modelled.
HeartbeatTick(h) ==
  /\ pc[h] = "hb_loop"
  /\ WriteResult # "err"
  /\ sendLog' = Sent("Heartbeat")
  /\ UNCHANGED <<Status, wsConn, ctxDone, HeartbeatActive, Retries, chanV, sessV,
                 netV, nhbfail, chunkV, dispV, mgV, idV, cfgV, lockV, reclose, pc, stk, loc, sgV, histV>>

\* A tick on which the send fails or the last ack is older than
\* MaxHeartbeatFailures: Reconnect, then return. (A tick that succeeds changes
\* only the timestamps, which are not modelled.)
HeartbeatFail(h) ==
  /\ pc[h] = "hb_loop"
  /\ nhbfail < MaxHbFail
  /\ nhbfail' = nhbfail + 1
  /\ loc' = EnterReconnect(h, "heartbeat")
  /\ CallReconnect(h, "hb_exit")
  /\ UNCHANGED <<Status, wsConn, ctxDone, HeartbeatActive, Retries, chanV, sessV,
                 netV, chunkV, dispV, mgV, idV, cfgV, lockV, obsV, sgV, histV>>

\* ------------------------------------------- OnEvent (Dispatch), OnDispatch
\* Event types of the frames: one in neither blacklist, one in each, one in both.
DispatchTypes == {"MESSAGE_CREATE", "TYPING_START", "PRESENCE_UPDATE", "GUILD_MEMBER_UPDATE"}

\* Manager.EventBlacklist and Manager.ProduceBlacklist as Manager.Open loads
\* them from the configuration.
EventBlacklist == {"TYPING_START", "GUILD_MEMBER_UPDATE"}

ProduceBlacklist == {"PRESENCE_UPDATE", "GUILD_MEMBER_UPDATE"}

\* Manager.Open sets mg.ProducerClient before any shard is opened.
ProducerClient == "set"

\* gotils.StringSliceInclude(sh.Manager.EventBlacklist, msg.Type)
InEventBlacklist_Never(ty) == FALSE

InEventBlacklist(ty) == ty \in EventBlacklist

\* gotils.StringSliceInclude(sh.Manager.ProduceBlacklist, msg.Type)
InProduceBlacklist_Never(ty) == FALSE

InProduceBlacklist(ty) == ty \in ProduceBlacklist

\* What Sandwich.StateDispatch returns: ok (publish), !ok, an error, or
\* NoHandler for a type without a handler.
StateResults == {"publish", "quiet", "error", "nohandler"}

\* What sh.PublishEvent returns.
PublishResults == {"nil", "publish"}

\* OnDispatch(msg) for a frame of type ty when StateDispatch returns st and
\* PublishEvent pb: how often the state update ran, how many packets were
\* published, and the error returned.
OnDispatch(ty, st, pb) ==
  IF ProducerClient = "nil"
    THEN [state |-> 0, published |-> 0, err |-> "noproducer"]
  ELSE IF InEventBlacklist(ty)
    THEN [state |-> 0, published |-> 0, err |-> "nil"]
  ELSE IF st = "error"
    THEN [state |-> 1, published |-> 0, err |-> "state"]
  ELSE IF st = "nohandler"
    THEN [state |-> 1, published |-> 0, err |-> "NoHandler"]
  ELSE IF st = "quiet"
    THEN [state |-> 1, published |-> 0, err |-> "nil"]
  ELSE IF InProduceBlacklist(ty)
    THEN [state |-> 1, published |-> 0, err |-> "nil"]
  ELSE [state |-> 1, published |-> 1, err |-> pb]

\* The tickets Pool.Wait() can hand out: those not in use.
PoolAvailable(p) == (1..PoolSize) \ p

\* case discord.GatewayOpDispatch of OnEvent on some shard: `go exec()` (the
\* store of the sequence that follows is OnEventStore).
DispatchFrame(d) ==
  /\ dpc[d] = "idle"
  /\ \A e \in Execs : e < d => dpc[e] # "idle"
  /\ \E ty \in DispatchTypes : dmsg' = [dmsg EXCEPT ![d] = ty]
  /\ dpc' = [dpc EXCEPT ![d] = "ex_wait"]
  /\ UNCHANGED <<shardV, chunkV, mgV, idV, cfgV, lockV, obsV, dres, pool>>

\* ticket = sh.Manager.Sandwich.Pool.Wait(), which blocks until a ticket is free.
ExecTicket(d) ==
  /\ dpc[d] = "ex_wait"
  /\ \E tk \in PoolAvailable(pool) :
       /\ pool' = pool \cup {tk}
       /\ dres' = [dres EXCEPT ![d].ticket = tk]
  /\ dpc' = [dpc EXCEPT ![d] = "ex_run"]
  /\ UNCHANGED <<shardV, chunkV, mgV, idV, cfgV, lockV, obsV, dmsg>>

\* err = sh.OnDispatch(msg); an error other than NoHandler is logged.
ExecOnDispatch(d) ==
  /\ dpc[d] = "ex_run"
  /\ \E st \in StateResults, pb \in PublishResults :
       LET r == OnDispatch(dmsg[d], st, pb) IN
         dres' = [dres EXCEPT ![d].st = st, ![d].state = r.state,
                              ![d].published = r.published, ![d].err = r.err,
                              ![d].logged = (r.err # "nil" /\ r.err # "NoHandler")]
  /\ dpc' = [dpc EXCEPT ![d] = "ex_free"]
  /\ UNCHANGED <<shardV, chunkV, mgV, idV, cfgV, lockV, obsV, dmsg, pool>>

\* A release that is skipped when OnDispatch failed.
ExecFree_OnSuccess(d) ==
  /\ dpc[d] = "ex_free"
  /\ pool' = IF dres[d].err = "nil" THEN pool \ {dres[d].ticket} ELSE pool
  /\ dres' = [dres EXCEPT ![d].freed = IF dres[d].err = "nil" THEN @ + 1 ELSE @]
  /\ dpc' = [dpc EXCEPT ![d] = "done"]
  /\ UNCHANGED <<shardV, chunkV, mgV, idV, cfgV, lockV, obsV, dmsg>>

\* exec returns: the deferred sh.Manager.Sandwich.Pool.FreeTicket(ticket).
ExecFree(d) ==
  /\ dpc[d] = "ex_free"
  /\ pool' = pool \ {dres[d].ticket}
  /\ dres' = [dres EXCEPT ![d].freed = @ + 1]
  /\ dpc' = [dpc EXCEPT ![d] = "done"]
  /\ UNCHANGED <<shardV, chunkV, mgV, idV, cfgV, lockV, obsV, dmsg>>

\* ------------------------------------------- Manager.Scale and the RPCs
\* sg.Managers: the managers of the daemon, and the names a request may carry.
Managers == {"bot"}

ManagerNames == {"bot", "ghost"}

\* The entry of mg.ShardGroups for an id.
Lookup(g) == IF g \in GroupIds THEN ShardGroups[g] ELSE "none"

\* `len(event.ShardIDs) < manager.Gateway.SessionStartLimit.Remaining`
SessionsSuffice(n, remaining) == n < remaining

\* RPCManagerShardGroupCreate up to its decision: an unknown manager and a
\* request the session limit does not cover are answered with an error;
\* otherwise manager.Scale(event.ShardIDs, event.ShardCount, true) is called.
RpcCreate(r) ==
  /\ rpc[r] = "idle"
  /\ ShardGroupIter + Cardinality({q \in Rpcs : rpc[q] = "sc_iter"}) < MaxGroups
  /\ \E m \in ManagerNames, n \in 1..MaxIds :
       IF m \notin Managers
         THEN /\ rloc' = [rloc EXCEPT ![r] = [NoRpc EXCEPT !.mg = m, !.n = n,
                                                           !.res = "invalid manager"]]
              /\ rpc' = rpc
         ELSE IF SessionsSuffice(n, SessionsRemaining)
           THEN /\ rloc' = [rloc EXCEPT ![r] = [NoRpc EXCEPT !.mg = m, !.n = n]]
                /\ rpc' = [rpc EXCEPT ![r] = "sc_iter"]
           ELSE /\ rloc' = [rloc EXCEPT ![r] = [NoRpc EXCEPT !.mg = m, !.n = n,
                                                             !.res = "not enough sessions"]]
                /\ rpc' = rpc
  /\ UNCHANGED <<shardV, chunkV, dispV, idV, cfgV, lockV, obsV, ShardGroups, ShardGroupIter, issued>>

\* atomic.AddInt32(mg.ShardGroupIter, 1)
NextIter(i) == i + 1

\* A Scale that reads the counter and leaves it as it is.
ScaleIter_NoAdd(r) ==
  /\ rpc[r] = "sc_iter"
  /\ rloc' = [rloc EXCEPT ![r].iter = ShardGroupIter, ![r].before = issued]
  /\ issued' = issued \cup {ShardGroupIter}
  /\ rpc' = [rpc EXCEPT ![r] = "sc_reg"]
  /\ UNCHANGED <<shardV, chunkV, dispV, idV, cfgV, lockV, obsV, ShardGroups, ShardGroupIter>>

\* iter := atomic.AddInt32(mg.ShardGroupIter, 1) - 1; sg := mg.NewShardGroup(iter)
ScaleIter(r) ==
  /\ rpc[r] = "sc_iter"
  /\ ShardGroupIter' = NextIter(ShardGroupIter)
  /\ rloc' = [rloc EXCEPT ![r].iter = NextIter(ShardGroupIter) - 1, ![r].before = issued]
  /\ issued' = issued \cup {NextIter(ShardGroupIter) - 1}
  /\ rpc' = [rpc EXCEPT ![r] = "sc_reg"]
  /\ UNCHANGED <<shardV, chunkV, dispV, idV, cfgV, lockV, obsV, ShardGroups>>

\* mg.ShardGroups[iter] = sg, under ShardGroupsMu.
ScaleRegister(r) ==
  /\ rpc[r] = "sc_reg"
  /\ ShardGroups' = [ShardGroups EXCEPT ![rloc[r].iter] = "Idle"]
  /\ rpc' = [rpc EXCEPT ![r] = "sc_open"]
  /\ UNCHANGED <<shardV, chunkV, dispV, idV, cfgV, lockV, obsV, ShardGroupIter, issued, rloc>>

\* if start { ready, err = sg.Open(shardIDs, shardCount) }; the handler then
\* answers success.
ScaleOpen(r) ==
  /\ rpc[r] = "sc_open"
  /\ ShardGroups' = [ShardGroups EXCEPT ![rloc[r].iter] = "Connecting"]
  /\ rloc' = [rloc EXCEPT ![r].res = "opened"]
  /\ rpc' = [rpc EXCEPT ![r] = "idle"]
  /\ UNCHANGED <<shardV, chunkV, dispV, idV, cfgV, lockV, obsV, ShardGroupIter, issued>>

\* Every shard of an opened group is ready: the group signals Ready.
GroupReady(g) ==
  /\ ShardGroups[g] = "Connecting"
  /\ ShardGroups' = [ShardGroups EXCEPT ![g] = "Ready"]
  /\ UNCHANGED <<shardV, chunkV, dispV, idV, cfgV, lockV, obsV, ShardGroupIter, issued, rpc, rloc>>

\* A manager that leaves the older groups running.
ManagerClosesOlder_Never(g, o) == FALSE /\ UNCHANGED vars

\* "When the new group signals Ready, the Manager closes all older groups."
ManagerClosesOlder(g, o) ==
  /\ ShardGroups[g] = "Ready"
  /\ o < g
  /\ ShardGroups[o] \in {"Connecting", "Ready"}
  /\ ShardGroups' = [ShardGroups EXCEPT ![o] = "Closed"]
  /\ UNCHANGED <<shardV, chunkV, dispV, idV, cfgV, lockV, obsV, ShardGroupIter, issued, rpc, rloc>>

\* `if shardgroup.Status != structs.ShardGroupClosed`
Deletable_Always(status) == TRUE

Deletable(status) == status = "Closed"

\* RPCManagerShardGroupDelete up to its decision: the lookups of the manager
\* and the group and the test of the group's status, each answered with an
\* error when it fails.
RpcDelete(r) ==
  /\ rpc[r] = "idle"
  /\ \E m \in ManagerNames, g \in 0..MaxGroups :
       LET res == IF m \notin Managers THEN "invalid manager"
                  ELSE IF Lookup(g) = "none" THEN "invalid shardgroup"
                  ELSE IF ~Deletable(Lookup(g)) THEN "not closed"
                  ELSE "none"
       IN /\ rloc' = [rloc EXCEPT ![r] = [NoRpc EXCEPT !.mg = m, !.g = g, !.res = res]]
          /\ rpc' = [rpc EXCEPT ![r] = IF res = "none" THEN "del" ELSE "idle"]
  /\ UNCHANGED <<shardV, chunkV, dispV, idV, cfgV, lockV, obsV, ShardGroups, ShardGroupIter, issued>>

\* delete(manager.ShardGroups, event.ShardGroup), under ShardGroupsMu.
RpcDeleteEntry(r) ==
  /\ rpc[r] = "del"
  /\ ShardGroups' = [ShardGroups EXCEPT ![rloc[r].g] = "none"]
  /\ rloc' = [rloc EXCEPT ![r].res = "deleted"]
  /\ rpc' = [rpc EXCEPT ![r] = "idle"]
  /\ UNCHANGED <<shardV, chunkV, dispV, idV, cfgV, lockV, obsV, ShardGroupIter, issued>>

\* ------------------------------------------------------- Shard.ChunkGuild
\* ChunkGuild(guildID, wait) up to the decision: the lookup of
\* MemberChunksComplete under its read lock. With an entry whose abool is set
\* it returns nil; with an entry that is not set it goes on to look up the
\* WaitGroup; without an entry it starts a flow: chunkGuild(guildID, false)
\* inline when wait, `go chunkGuild(guildID, true)` and return nil otherwise.
ChunkGuild(k) ==
  /\ cpc[k] = "idle"
  /\ \E w \in BOOLEAN :
       IF MemberChunksComplete # 0
         THEN IF completed[MemberChunksComplete]
                THEN /\ cpc' = [cpc EXCEPT ![k] = "returned"]
                     /\ cloc' = [cloc EXCEPT ![k].ret = "nil"]
                ELSE /\ cpc' = [cpc EXCEPT ![k] = "cg_callback"]
                     /\ cloc' = cloc
         ELSE /\ cpc' = [cpc EXCEPT ![k] = IF w THEN "ck_complete" ELSE "ck_ticket"]
              /\ cloc' = [cloc EXCEPT ![k].wait = w,
                                      ![k].ret = IF w THEN "none" ELSE "nil"]
  /\ UNCHANGED <<shardV, dispV, mgV, idV, cfgV, lockV, obsV, MemberChunksComplete, MemberChunkCallbacks,
                 MemberChunksCallback, completed, wgDone, chanClosed, closedNil,
                 tickets, rgmSent, nchunks>>

\* The lookup of MemberChunksCallback: with a WaitGroup, Wait on it; without
\* one, warn and return nil.
ChunkGuildCallback(k) ==
  /\ cpc[k] = "cg_callback"
  /\ IF MemberChunksCallback # 0
       THEN /\ cpc' = [cpc EXCEPT ![k] = "cg_wait"]
            /\ cloc' = [cloc EXCEPT ![k].wg = MemberChunksCallback]
       ELSE /\ cpc' = [cpc EXCEPT ![k] = "returned"]
            /\ cloc' = [cloc EXCEPT ![k].ret = "nil"]
  /\ UNCHANGED <<shardV, dispV, mgV, idV, cfgV, lockV, obsV, MemberChunksComplete, MemberChunkCallbacks,
                 MemberChunksCallback, completed, wgDone, chanClosed, closedNil,
                 tickets, rgmSent, nchunks>>

\* chunksCallback.Wait() returns once the flow called wg.Done().
ChunkGuildWait(k) ==
  /\ cpc[k] = "cg_wait"
  /\ wgDone[cloc[k].wg]
  /\ cpc' = [cpc EXCEPT ![k] = "returned"]
  /\ cloc' = [cloc EXCEPT ![k].wg = 0, ![k].ret = "nil"]
  /\ UNCHANGED <<shardV, dispV, mgV, idV, cfgV, lockV, obsV, MemberChunksComplete, MemberChunkCallbacks,
                 MemberChunksCallback, completed, wgDone, chanClosed, closedNil,
                 tickets, rgmSent, nchunks>>

\* ------------------------------------------------------- Shard.chunkGuild
\* if waitForTicket { ticket = sh.ShardGroup.ChunkLimiter.Wait() ... }
ChunkTicket(k) ==
  /\ cpc[k] = "ck_ticket"
  /\ tickets < ChunkLimit
  /\ tickets' = tickets + 1
  /\ cloc' = [cloc EXCEPT ![k].ticket = TRUE]
  /\ cpc' = [cpc EXCEPT ![k] = "ck_complete"]
  /\ UNCHANGED <<shardV, dispV, mgV, idV, cfgV, lockV, obsV, MemberChunksComplete, MemberChunkCallbacks,
                 MemberChunksCallback, completed, wgDone, chanClosed, closedNil,
                 rgmSent, nchunks>>

\* sh.ShardGroup.MemberChunksComplete[guildID] = completed (a new abool).
ChunkPublishComplete(k) ==
  /\ cpc[k] = "ck_complete"
  /\ MemberChunksComplete' = k
  /\ cpc' = [cpc EXCEPT ![k] = "ck_arrivals"]
  /\ UNCHANGED <<shardV, dispV, mgV, idV, cfgV, lockV, obsV, MemberChunkCallbacks, MemberChunksCallback, completed,
                 wgDone, chanClosed, closedNil, tickets, rgmSent, nchunks, cloc>>

\* sh.ShardGroup.MemberChunkCallbacks[guildID] = chunkCallbacks (a new channel).
ChunkPublishArrivals(k) ==
  /\ cpc[k] = "ck_arrivals"
  /\ MemberChunkCallbacks' = k
  /\ cpc' = [cpc EXCEPT ![k] = "ck_callback"]
  /\ UNCHANGED <<shardV, dispV, mgV, idV, cfgV, lockV, obsV, MemberChunksComplete, MemberChunksCallback, completed,
                 wgDone, chanClosed, closedNil, tickets, rgmSent, nchunks, cloc>>

\* wg.Add(1); sh.ShardGroup.MemberChunksCallback[guildID] = wg.
ChunkPublishCallback(k) ==
  /\ cpc[k] = "ck_callback"
  /\ MemberChunksCallback' = k
  /\ cpc' = [cpc EXCEPT ![k] = "ck_send"]
  /\ UNCHANGED <<shardV, dispV, mgV, idV, cfgV, lockV, obsV, MemberChunksComplete, MemberChunkCallbacks, completed,
                 wgDone, chanClosed, closedNil, tickets, rgmSent, nchunks, cloc>>

\* err = sh.SendEvent(GatewayOpRequestGuildMembers, ...): on an error the flow
\* cleans the maps and returns the error; WriteJSON without a socket returns
\* nil and no frame leaves.
ChunkSend(k) ==
  /\ cpc[k] = "ck_send"
  /\ sendLog' = Sent("RequestGuildMembers")
  /\ IF WriteResult = "err"
       THEN /\ cpc' = [cpc EXCEPT ![k] = "cl_callback"]
            /\ cloc' = [cloc EXCEPT ![k].err = "send"]
            /\ UNCHANGED rgmSent
       ELSE /\ cpc' = [cpc EXCEPT ![k] = "ck_first"]
            /\ rgmSent' = IF WriteResult = "ok" THEN rgmSent + 1 ELSE rgmSent
            /\ UNCHANGED cloc
  /\ UNCHANGED <<shardV, dispV, mgV, idV, cfgV, lockV, reclose, MemberChunksComplete, MemberChunkCallbacks,
                 MemberChunksCallback, completed, wgDone, chanClosed, closedNil,
                 tickets, nchunks>>

\* Positions of a flow that selects on its arrival channel.
Receiving == {"ck_first", "ck_idle"}

\* case <-chunkCallbacks on a closed channel: the receive returns at once.
\* In the memberChunks loop it changes nothing the model keeps.
ChunkClosedSignal(k) ==
  /\ cpc[k] = "ck_first"
  /\ chanClosed[k]
  /\ cpc' = [cpc EXCEPT ![k] = "ck_idle"]
  /\ UNCHANGED <<shardV, dispV, mgV, idV, cfgV, lockV, obsV, MemberChunksComplete, MemberChunkCallbacks,
                 MemberChunksCallback, completed, wgDone, chanClosed, closedNil,
                 tickets, rgmSent, nchunks, cloc>>

\* case <-t.C of the first select: initialMemberChunkTimeout passed without a
\* signal; the flow cleans the maps and returns ErrChunkTimeout.
ChunkFirstTimeout(k) ==
  /\ cpc[k] = "ck_first"
  /\ cpc' = [cpc EXCEPT ![k] = "cl_callback"]
  /\ cloc' = [cloc EXCEPT ![k].err = "timeout"]
  /\ UNCHANGED <<shardV, dispV, mgV, idV, cfgV, lockV, obsV, MemberChunksComplete, MemberChunkCallbacks,
                 MemberChunksCallback, completed, wgDone, chanClosed, closedNil,
                 tickets, rgmSent, nchunks>>

\* case <-t.C of the memberChunks loop, then wg.Done(). On a closed channel
\* the receive arm is always ready and resets the timer on every turn of the
\* loop, so the timer never fires.
ChunkIdleTimeout(k) ==
  /\ cpc[k] = "ck_idle"
  /\ ~chanClosed[k]
  /\ wgDone' = [wgDone EXCEPT ![k] = TRUE]
  /\ cpc' = [cpc EXCEPT ![k] = "ck_set"]
  /\ UNCHANGED <<shardV, dispV, mgV, idV, cfgV, lockV, obsV, MemberChunksComplete, MemberChunkCallbacks,
                 MemberChunksCallback, completed, chanClosed, closedNil, tickets,
                 rgmSent, nchunks, cloc>>

\* completed.Set(); go func() { time.Sleep(chunkStatePersistTimeout); ... }();
\* return nil, which runs the deferred FreeTicket.
ChunkSet(k) ==
  /\ cpc[k] = "ck_set"
  /\ completed' = [completed EXCEPT ![k] = TRUE]
  /\ tickets' = IF cloc[k].ticket THEN tickets - 1 ELSE tickets
  /\ cloc' = [cloc EXCEPT ![k].ticket = FALSE, ![k].ret = "nil", ![k].err = "nil"]
  /\ cpc' = [cpc EXCEPT ![k] = "cl_callback"]
  /\ UNCHANGED <<shardV, dispV, mgV, idV, cfgV, lockV, obsV, MemberChunksComplete, MemberChunkCallbacks,
                 MemberChunksCallback, wgDone, chanClosed, closedNil, rgmSent,
                 nchunks>>

\* ------------------------------------------------- Shard.cleanGuildChunks
\* delete(sh.ShardGroup.MemberChunksCallback, guildID)
CleanCallback(k) ==
  /\ cpc[k] = "cl_callback"
  /\ MemberChunksCallback' = 0
  /\ cpc' = [cpc EXCEPT ![k] = "cl_arrivals"]
  /\ UNCHANGED <<shardV, dispV, mgV, idV, cfgV, lockV, obsV, MemberChunksComplete, MemberChunkCallbacks, completed,
                 wgDone, chanClosed, closedNil, tickets, rgmSent, nchunks, cloc>>

\* close(sh.ShardGroup.MemberChunkCallbacks[guildID]); delete(...): closes
\* whichever channel the map holds; without an entry it closes a nil channel,
\* which panics and ends every goroutine of the process.
CleanArrivals(k) ==
  /\ cpc[k] = "cl_arrivals"
  /\ IF MemberChunkCallbacks = 0
       THEN /\ closedNil' = TRUE
            /\ cpc' = [j \in Callers |-> "panicked"]
            /\ UNCHANGED chanClosed
       ELSE /\ chanClosed' = [chanClosed EXCEPT ![MemberChunkCallbacks] = TRUE]
            /\ cpc' = [cpc EXCEPT ![k] = "cl_complete"]
            /\ UNCHANGED closedNil
  /\ MemberChunkCallbacks' = 0
  /\ UNCHANGED <<shardV, dispV, mgV, idV, cfgV, lockV, obsV, MemberChunksComplete, MemberChunksCallback, completed,
                 wgDone, tickets, rgmSent, nchunks, cloc>>

\* delete(sh.ShardGroup.MemberChunksComplete, guildID), and what follows the
\* call: the delayed cleanup ends; a failed flow returns its error (to the
\* caller when it runs inline) and the deferred FreeTicket runs.
CleanComplete(k) ==
  /\ cpc[k] = "cl_complete"
  /\ MemberChunksComplete' = 0
  /\ cpc' = [cpc EXCEPT ![k] = "done"]
  /\ tickets' = IF cloc[k].ticket THEN tickets - 1 ELSE tickets
  /\ cloc' = [cloc EXCEPT ![k].ticket = FALSE,
                          ![k].ret = IF cloc[k].err # "nil" /\ cloc[k].wait
                                       THEN cloc[k].err ELSE @]
  /\ UNCHANGED <<shardV, dispV, mgV, idV, cfgV, lockV, obsV, MemberChunkCallbacks, MemberChunksCallback, completed,
                 wgDone, chanClosed, closedNil, rgmSent, nchunks>>

\* The inbound-event path observes a GUILD_MEMBERS_CHUNK event and signals the
\* channel MemberChunkCallbacks holds for the guild; the flow that selects on
\* that channel receives it (the first select breaks, the memberChunks loop
\* resets its timer).
ChunkArrives ==
  /\ rgmSent > 0
  /\ nchunks < MaxChunks
  /\ MemberChunkCallbacks # 0
  /\ ~chanClosed[MemberChunkCallbacks]
  /\ cpc[MemberChunkCallbacks] \in Receiving
  /\ nchunks' = nchunks + 1
  /\ cpc' = [cpc EXCEPT ![MemberChunkCallbacks] = "ck_idle"]
  /\ UNCHANGED <<shardV, dispV, mgV, idV, cfgV, lockV, obsV, MemberChunksComplete, MemberChunkCallbacks,
                 MemberChunksCallback, completed, wgDone, chanClosed, closedNil,
                 tickets, rgmSent, cloc>>

\* ------------------------------------------------------------------ Next
Step(t) ==
  \/ ReadPoll(t) \/ ReadWait(t)
  \/ CloseCancel(t) \/ CloseSocket(t) \/ CloseStatus(t)
  \/ ConnectWaiting(t) \/ ConnectConnecting(t) \/ ConnectDial(t)
  \/ ConnectChannels(t) \/ ConnectHello(t) \/ ConnectChoose(t)
  \/ ConnectIdentify(t) \/ ConnectResume(t) \/ ConnectFirstEvent(t)
  \/ ConnectRequeue(t) \/ ConnectReturn(t)
  \/ ReconnectStatus(t) \/ ReconnectAfter(t) \/ ReconnectFinalReturn(t)

\* The shard without frames from the gateway other than HELLO and READY:
\* the first Connect, the read loop, and connections that fail.
Core ==
  \/ \E t \in Tasks : Step(t)
  \/ \E c \in ConnIds : GwClose(c) \/ ReaderExit(c)
  \/ GroupOpen \/ GroupOpened \/ GroupOpenFailed
  \/ ListenLoop \/ ListenMessage \/ ListenFatal \/ OpenCheck
  \/ OnEvent \/ StateReady
  \/ \E h \in HbTasks : HeartbeatStart(h) \/ HeartbeatDone(h)

\* The read loop with every kind of frame; heartbeat ticks succeed and the
\* parent does not close the shard.
Next ==
  \/ Core
  \/ \E c \in ConnIds : GwDispatch(c) \/ GwControl(c)
  \/ OnEventStore
  \/ \E h \in HbTasks : HeartbeatTick(h)

Spec == Init /\ [][Next]_vars

\* A connected shard: the first Connect identified on the Established
\* connection, READY was handled, the heartbeat task runs, and Open is about
\* to listen.
InitConnected ==
  /\ Status = "Ready"
  /\ wsConn = Established
  /\ ctxDone = FALSE
  /\ HeartbeatActive = TRUE
  /\ seq = 1
  /\ sessionID = Established
  /\ Retries = CfgRetries
  /\ ErrorCh = Established
  /\ MessageCh = Established
  /\ conn = [c \in ConnIds |->
               IF c = Established
                 THEN [live |-> TRUE, reader |-> TRUE, cx |-> FALSE, sess |-> "new"]
                 ELSE NoConn]
  /\ msgq = [c \in ConnIds |-> <<>>]
  /\ errq = [c \in ConnIds |-> "nil"]
  /\ nconn = 0
  /\ nframes = 0
  /\ nhbfail = 0
  /\ gwSeq = 1
  /\ pending = {}
  /\ pc = [t \in Tasks |-> IF t = "main" THEN "ls_loop"
                           ELSE IF t = "hb1" THEN "hb_loop" ELSE "idle"]
  /\ stk = [t \in Tasks |-> <<>>]
  /\ loc = [t \in Tasks |-> NoLoc]
  /\ sgStatus = "Connecting"
  /\ sgError = "nil"
  /\ hs = NoHs
  /\ parentClosed = FALSE
  /\ lastDial = NoDial
  /\ lastInv = NoInv
  /\ lastRc = [task |-> "none", cause |-> "none", err |-> "nil", handled |-> FALSE]
  /\ ChunkInit
  /\ DispatchInit
  /\ ManagerInit
  /\ IdentifyInit
  /\ ConfigInit
  /\ LockInit
  /\ reclose = NoReclose
  /\ sendLog = [hb |-> "none", other |-> How("Identify")]

\* The read loop of a connected shard beside a heartbeat task whose tick fails
\* and reconnects.
NextHb ==
  \/ \E t \in Tasks : Step(t)
  \/ \E c \in ConnIds : GwClose(c) \/ ReaderExit(c)
  \/ ListenLoop \/ ListenMessage \/ ListenFatal \/ OpenCheck
  \/ OnEvent \/ StateReady
  \/ \E h \in HbTasks : HeartbeatStart(h) \/ HeartbeatDone(h) \/ HeartbeatFail(h)

SpecHb == InitConnected /\ [][NextHb]_vars

\* The read loop of a connected shard whose gateway stops acknowledging: no
\* read error arrives, and the heartbeat task finds the ack overdue. The shard
\* has a session, so its handshakes resume.
StepLapse(t) ==
  \/ ReadPoll(t) \/ ReadWait(t)
  \/ CloseCancel(t) \/ CloseSocket(t) \/ CloseStatus(t)
  \/ ConnectWaiting(t) \/ ConnectConnecting(t) \/ ConnectDial(t)
  \/ ConnectChannels(t) \/ ConnectHello(t) \/ ConnectChoose(t)
  \/ ConnectResume(t) \/ ConnectFirstEvent(t)
  \/ ConnectRequeue(t) \/ ConnectReturn(t)
  \/ ReconnectStatus(t) \/ ReconnectAfter(t) \/ ReconnectFinalReturn(t)

NextLapse ==
  \/ \E t \in Tasks : StepLapse(t)
  \/ \E c \in ConnIds : ReaderExit(c) \/ GwDispatch(c)
  \/ ListenLoop \/ ListenMessage
  \/ OnEvent
  \/ \E h \in HbTasks : HeartbeatDone(h) \/ HeartbeatFail(h)

SpecLapse == InitConnected /\ [][NextLapse]_vars

\* The same under the Go scheduler, which leaves no goroutine that can take a
\* step waiting for ever: the tasks, the readers, the read loop and the
\* returning heartbeat task are weakly fair; what the gateway sends and whether
\* a tick fails are not.
SpecLapseFair ==
  /\ SpecLapse
  /\ \A t \in Tasks : WF_vars(StepLapse(t))
  /\ \A c \in ConnIds : WF_vars(ReaderExit(c))
  /\ WF_vars(ListenLoop) /\ WF_vars(ListenMessage) /\ WF_vars(OnEvent)
  /\ \A h \in HbTasks : WF_vars(HeartbeatDone(h))

\* The read loop beside the parent closing the shard.
NextClose ==
  \/ Core
  \/ GroupClose \/ GroupClosed
  \/ ManagerClose \/ ManagerClosed

SpecClose == Init /\ [][NextClose]_vars

\* Concurrent ChunkGuild calls for one guild on a connected shard whose socket
\* the gateway may close.
NextChunk ==
  \/ \E k \in Callers :
       \/ ChunkGuild(k) \/ ChunkGuildCallback(k) \/ ChunkGuildWait(k)
       \/ ChunkTicket(k) \/ ChunkPublishComplete(k) \/ ChunkPublishArrivals(k)
       \/ ChunkPublishCallback(k) \/ ChunkSend(k) \/ ChunkClosedSignal(k)
       \/ ChunkFirstTimeout(k) \/ ChunkIdleTimeout(k) \/ ChunkSet(k)
       \/ CleanCallback(k) \/ CleanArrivals(k) \/ CleanComplete(k)
  \/ ChunkArrives
  \/ \E c \in ConnIds : GwClose(c)

SpecChunk == InitConnected /\ [][NextChunk]_vars

\* The same under the Go scheduler and its timers: a caller or flow that can
\* take a step (a timeout that can fire included) is not left waiting for
\* ever. What the gateway sends or closes is not fair.
SpecChunkFair ==
  /\ SpecChunk
  /\ \A k \in Callers :
       WF_vars(\/ ChunkGuild(k) \/ ChunkGuildCallback(k) \/ ChunkGuildWait(k)
               \/ ChunkTicket(k) \/ ChunkPublishComplete(k) \/ ChunkPublishArrivals(k)
               \/ ChunkPublishCallback(k) \/ ChunkSend(k) \/ ChunkClosedSignal(k)
               \/ ChunkFirstTimeout(k) \/ ChunkIdleTimeout(k) \/ ChunkSet(k)
               \/ CleanCallback(k) \/ CleanArrivals(k) \/ CleanComplete(k))

\* Dispatch frames of the shards of a running manager, each handled by its
\* exec goroutine under the worker pool.
NextDispatch ==
  \E d \in Execs :
    \/ DispatchFrame(d) \/ ExecTicket(d) \/ ExecOnDispatch(d) \/ ExecFree(d)

SpecDispatch == InitConnected /\ [][NextDispatch]_vars

\* Connect, up to the handshake: the send bucket of the shard is created in
\* the manager's store, the identify bucket in the store of the process.
IdConnect(s) ==
  /\ ish[s].pc = "idle"
  /\ buckets' = [buckets EXCEPT
       ![s.mgr] = CreateBucket(@, WsName(s), 120, 120),
       !["sandwich"] = CreateBucket(@, GwName(s), 1, identifyRatelimit)]
  /\ ish' = [ish EXCEPT ![s].pc = "hello"]
  /\ UNCHANGED <<shardV, chunkV, dispV, mgV, cfgV, lockV, obsV, now, idents>>

\* Identify: waits for the identify bucket in the store of the process, logs
\* an error of the wait, and sends IDENTIFY whatever the wait returned.
Identify(s) ==
  /\ ish[s].pc = "hello"
  /\ ~ish[s].session
  /\ WaitReturns(buckets["sandwich"], GwName(s), now)
  /\ buckets' = [buckets EXCEPT !["sandwich"] = WaitForBucket(@, GwName(s), now)]
  /\ idents' = [idents EXCEPT ![GwName(s)] =
       (IF Len(@) = 2 THEN Tail(@) ELSE @) \o <<[at |-> now, grp |-> s.grp, id |-> s.id]>>]
  /\ ish' = [ish EXCEPT ![s].pc = "sent"]
  /\ UNCHANGED <<shardV, chunkV, dispV, mgV, cfgV, lockV, obsV, now>>

\* Resume: a shard that holds a session sends RESUME and waits for no bucket.
IdResume(s) ==
  /\ ish[s].pc = "hello"
  /\ ish[s].session
  /\ ish' = [ish EXCEPT ![s].pc = "sent"]
  /\ UNCHANGED <<shardV, chunkV, dispV, mgV, cfgV, lockV, obsV, now, buckets, idents>>

\* The store Connect resets the identify bucket in: sh.Manager.Buckets.
ResetStore_Sandwich(s) == "sandwich"
ResetStore(s) == s.mgr

\* Connect, after IDENTIFY or RESUME: resets the bucket of the identify
\* bucket's name. The connection then lives until the shard connects again,
\* with the session the gateway gave it or (after InvalidSession) without.
IdResetBucket(s) ==
  /\ ish[s].pc = "sent"
  /\ buckets' = [buckets EXCEPT ![ResetStore(s)] = ResetBucket(@, GwName(s))]
  /\ \E kept \in BOOLEAN : ish' = [ish EXCEPT ![s] = [pc |-> "idle", session |-> kept]]
  /\ UNCHANGED <<shardV, chunkV, dispV, mgV, cfgV, lockV, obsV, now, idents>>

\* Half a second passes.
IdTick ==
  /\ now < MaxTime
  /\ now' = now + 1
  /\ UNCHANGED <<shardV, chunkV, dispV, mgV, cfgV, lockV, obsV, buckets, ish, idents>>

\* The shards of the process connecting side by side.
NextIdentify ==
  \/ \E s \in IdShards : IdConnect(s)
  \/ \E s \in IdShards : Identify(s)
  \/ \E s \in IdShards : IdResume(s)
  \/ \E s \in IdShards : IdResetBucket(s)
  \/ IdTick

SpecIdentify == Init /\ [][NextIdentify]_vars

\* NewManager, called once for the manager of a run: builds the manager
\* around the configuration it is given and normalizes it in place; an error
\* of the normalization is returned instead of the manager.
NewManager(c) ==
  /\ created = "none"
  /\ given' = c
  /\ Configuration' = NormalizeConfiguration(c).cfg
  /\ created' = IF NormalizeConfiguration(c).err = "nil" THEN "manager" ELSE "error"
  /\ Gateway' = [Shards |-> 0, MaxConcurrency |-> 0]
  /\ gathered' = NotGathered
  /\ UNCHANGED <<shardV, chunkV, dispV, mgV, idV, lockV, obsV, backoff>>

\* Open, called once for the manager: stores the gateway descriptor
\* GetGateway returned.
ManagerOpen(shards, maxConcurrency) ==
  /\ created = "manager"
  /\ Gateway.MaxConcurrency = 0
  /\ Gateway' = [Shards |-> shards, MaxConcurrency |-> maxConcurrency]
  /\ UNCHANGED <<shardV, chunkV, dispV, mgV, idV, lockV, obsV, Configuration, given,
                 created, gathered, backoff>>

\* GatherShardCount: the recommended or the configured count, rounded up to a
\* multiple of max_concurrency.
GatherShardCount ==
  /\ created = "manager"
  /\ Gateway.MaxConcurrency >= 1
  /\ LET base == IF Configuration.AutoSharded THEN Gateway.Shards
                  ELSE Configuration.ShardCount
     IN  gathered' = [done |-> TRUE, auto |-> Configuration.AutoSharded,
                      recommended |-> Gateway.Shards,
                      configured |-> Configuration.ShardCount,
                      per |-> Gateway.MaxConcurrency,
                      count |-> CeilDiv(base, Gateway.MaxConcurrency)
                                  * Gateway.MaxConcurrency]
  /\ UNCHANGED <<shardV, chunkV, dispV, mgV, idV, lockV, obsV, Configuration, given,
                 created, Gateway, backoff>>

\* Managers made from configurations, opened, and asked for their shard count.
NextConfig ==
  \/ \E c \in Configurations : NewManager(c)
  \/ \E shards \in 0..MaxShardCount, maxConcurrency \in 1..MaxConcurrencyLimit :
       ManagerOpen(shards, maxConcurrency)
  \/ GatherShardCount

SpecConfig == Init /\ [][NextConfig]_vars

\* Reconnect of a shard with a budget of several retries, the result of each
\* Connect being the gateway's to decide. wait := time.Second; Close.
BackoffBegin(budget) ==
  /\ backoff.pc = "idle"
  /\ backoff' = [pc |-> "connect", wait |-> Second, retries |-> budget,
                 slept |-> <<>>, res |-> "none"]
  /\ UNCHANGED <<shardV, chunkV, dispV, mgV, idV, lockV, obsV, Configuration, given,
                 created, Gateway, gathered>>

\* err := sh.Connect() succeeded: Reconnect returns nil.
BackoffConnected ==
  /\ backoff.pc = "connect"
  /\ backoff' = [backoff EXCEPT !.pc = "idle", !.res = "nil"]
  /\ UNCHANGED <<shardV, chunkV, dispV, mgV, idV, lockV, obsV, Configuration, given,
                 created, Gateway, gathered>>

\* err := sh.Connect() failed: the budget is decremented; at zero Reconnect
\* returns what its final attempt returns, otherwise it sleeps for wait.
BackoffFailed ==
  /\ backoff.pc = "connect"
  /\ IF backoff.retries - 1 <= 0
       THEN \E res \in {"nil", "error"} :
              backoff' = [backoff EXCEPT !.pc = "idle", !.retries = @ - 1, !.res = res]
       ELSE backoff' = [backoff EXCEPT !.pc = "sleep", !.retries = @ - 1]
  /\ UNCHANGED <<shardV, chunkV, dispV, mgV, idV, lockV, obsV, Configuration, given,
                 created, Gateway, gathered>>

\* <-time.After(wait), then the next wait.
BackoffSleep ==
  /\ backoff.pc = "sleep"
  /\ backoff' = [backoff EXCEPT !.pc = "connect", !.slept = Append(@, backoff.wait),
                                !.wait = NextWait(@)]
  /\ UNCHANGED <<shardV, chunkV, dispV, mgV, idV, lockV, obsV, Configuration, given,
                 created, Gateway, gathered>>

NextBackoff ==
  \/ \E budget \in 1..MaxBudget : BackoffBegin(budget)
  \/ BackoffConnected
  \/ BackoffFailed
  \/ BackoffSleep

SpecBackoff == Init /\ [][NextBackoff]_vars

\* sync.RWMutex.RLock
MuRLock(t) ==
  /\ NextOp(t)[1] = "RLock"
  /\ CanRLock(NextOp(t)[2])
  /\ rw' = [rw EXCEPT ![NextOp(t)[2]].r[t] = @ + 1]
  /\ lpc' = [lpc EXCEPT ![t] = @ + 1]
  /\ UNCHANGED <<shardV, chunkV, dispV, mgV, idV, cfgV, obsV>>

\* sync.RWMutex.RUnlock
MuRUnlock(t) ==
  /\ NextOp(t)[1] = "RUnlock"
  /\ rw' = [rw EXCEPT ![NextOp(t)[2]].r[t] = @ - 1]
  /\ lpc' = [lpc EXCEPT ![t] = @ + 1]
  /\ UNCHANGED <<shardV, chunkV, dispV, mgV, idV, cfgV, obsV>>

\* sync.RWMutex.Lock, entered: from now on RLock waits for this writer.
MuLockEnter(t) ==
  /\ NextOp(t)[1] = "Lock"
  /\ t \notin rw[NextOp(t)[2]].pend
  /\ rw' = [rw EXCEPT ![NextOp(t)[2]].pend = @ \cup {t}]
  /\ UNCHANGED <<shardV, chunkV, dispV, mgV, idV, cfgV, obsV, lpc>>

\* sync.RWMutex.Lock, returning.
MuLock(t) ==
  /\ NextOp(t)[1] = "Lock"
  /\ t \in rw[NextOp(t)[2]].pend
  /\ CanLock(NextOp(t)[2])
  /\ rw' = [rw EXCEPT ![NextOp(t)[2]].pend = @ \ {t}, ![NextOp(t)[2]].w = t]
  /\ lpc' = [lpc EXCEPT ![t] = @ + 1]
  /\ UNCHANGED <<shardV, chunkV, dispV, mgV, idV, cfgV, obsV>>

\* sync.RWMutex.Unlock
MuUnlock(t) ==
  /\ NextOp(t)[1] = "Unlock"
  /\ rw' = [rw EXCEPT ![NextOp(t)[2]].w = "none"]
  /\ lpc' = [lpc EXCEPT ![t] = @ + 1]
  /\ UNCHANGED <<shardV, chunkV, dispV, mgV, idV, cfgV, obsV>>

\* A handshake of either kind, a heartbeat send, the validation of a
\* configuration and an update of the manager's configuration, side by side.
NextLocks ==
  \E t \in Lockers :
    MuRLock(t) \/ MuRUnlock(t) \/ MuLockEnter(t) \/ MuLock(t) \/ MuUnlock(t)

SpecLocks == Init /\ [][NextLocks]_vars

\* RPC requests that create and delete the shard groups of one manager, and
\* the groups' way from opened to Ready to Closed.
NextManager ==
  \/ \E r \in Rpcs :
       \/ RpcCreate(r) \/ ScaleIter(r) \/ ScaleRegister(r) \/ ScaleOpen(r)
       \/ RpcDelete(r) \/ RpcDeleteEntry(r)
  \/ \E g \in GroupIds : GroupReady(g)
  \/ \E g, o \in GroupIds : ManagerClosesOlder(g, o)

SpecManager == Init /\ [][NextManager]_vars

\* The same, with a manager that does not put off closing an older group for
\* ever and Scale calls that run to their end.
SpecManagerFair ==
  /\ SpecManager
  /\ \A g, o \in GroupIds : WF_vars(ManagerClosesOlder(g, o))
  /\ \A r \in Rpcs : WF_vars(ScaleIter(r) \/ ScaleRegister(r) \/ ScaleOpen(r))


\* ------------------------------------------------------------------ claims
\* Sockets that are open: dialed, not closed by either side, and not dialed
\* under a context that has since been cancelled.
LiveSockets == {c \in ConnIds : conn[c].live /\ ~conn[c].cx}

\* C1: in every reachable state the shard has at most one live WebSocket
\* connection.
C1_OneLiveSocket == Cardinality(LiveSockets) <= 1

\* C2: a handshake that got past HELLO hands exactly one frame to SendEvent:
\* IDENTIFY when the session id Connect read is empty or the sequence it read is
\* 0, RESUME otherwise, and a RESUME carries the stored session id and sequence.
C2_HandshakeChoice ==
  hs.op # "none" =>
    /\ hs.op \in {"Identify", "Resume"}
    /\ (hs.op = "Identify") <=> (hs.sessread = 0 \/ hs.sread = 0)
    /\ hs.op = "Resume" => (hs.fsess = hs.ssess /\ hs.fseq = hs.sseq)

\* A RESUME was written to the socket with a session id and a sequence.
C2_Witness ==
  /\ hs.op = "Resume" /\ hs.wr = "ok"
  /\ hs.fsess # 0 /\ hs.fseq # 0

\* C3: the stored sequence never decreases, except that handling an
\* InvalidSession frame with resumable=false sets it to 0.
C3_SequenceMonotonic ==
  [][seq' < seq =>
       /\ seq' = 0
       /\ pc["main"] = "on_event"
       /\ loc["main"].msg.op = "InvalidSession" /\ ~loc["main"].msg.d]_vars

\* C4: once a handshake has ended with a fatal close code, no further Connect
\* attempt is made for the shard.
C4_NoConnectAfterFatal ==
  \A t \in Tasks : pc[t] = "cn_wait" => loc[t].err # "fatal"

\* Chunk flows that sent their RequestGuildMembers frame and wait for chunks.
FlowsRequested == {k \in Callers : cpc[k] \in {"ck_first", "ck_idle", "ck_set"}}

\* C5: of the callers that invoke ChunkGuild concurrently for one guild only
\* one starts a chunk flow: no two flows are in flight at once, each having
\* sent a RequestGuildMembers frame.
C5_OneChunkFlow == ~(Cardinality(FlowsRequested) >= 2 /\ rgmSent >= 2)

\* C6: in the reconnect after a read error of a shard that has a session id and
\* a non-zero sequence, the handshake is RESUME, the identify bucket is not
\* waited on, and the shard is Ready after the send and when Reconnect returns
\* success.
C6_ResumeAfterDisconnect ==
  /\ (hs.op # "none" /\ hs.cause = "readerr" /\ hs.pre) =>
       /\ hs.op = "Resume"
       /\ ~hs.gw
       /\ hs.wr # "err" => hs.status = "Ready"
  /\ (/\ pc["main"] = "rc_after" /\ loc["main"].err = "nil"
      /\ loc["main"].cause = "readerr" /\ loc["main"].pre) => Status = "Ready"

\* The RESUME of such a reconnect was written and the shard is Ready.
C6_Witness ==
  /\ hs.op = "Resume" /\ hs.cause = "readerr" /\ hs.pre
  /\ hs.wr = "ok" /\ hs.status = "Ready"

\* C7: when InvalidSession with resumable=false is handled, session id and
\* sequence are cleared before the reconnect starts, and the handshakes of that
\* reconnect send IDENTIFY.
C7_InvalidSessionIdentifies ==
  /\ \A t \in Tasks : loc[t].cause = "invalid_f" =>
       (loc[t].snapSess = 0 /\ loc[t].snapSeq = 0)
  /\ hs.cause = "invalid_f" => hs.op = "Identify"

\* A shard that had a session (it was Ready) identifies again after the frame.
C7_Witness ==
  /\ hs.cause = "invalid_f" /\ hs.pre
  /\ hs.op = "Identify" /\ hs.wr = "ok"

\* C8: once a resumable InvalidSession frame is fully handled by a shard that
\* has a session, session id and sequence equal the values they had before the
\* frame arrived.
C8_ResumablePreserved ==
  (lastInv.done /\ lastInv.resumable /\ lastInv.preSess # 0 /\ lastInv.preSeq # 0) =>
    (lastInv.postSess = lastInv.preSess /\ lastInv.postSeq = lastInv.preSeq)

\* C9: after a Reconnect whose final attempt failed, the error is recorded on
\* the shard group and the group is closed.
C9_FinalErrorSurfaced ==
  lastRc.handled =>
    (sgError = lastRc.err /\ sgStatus \in {"Erroring", "Closed"})

\* C10: once the parent has closed the shard, a Reconnect that was in progress
\* dials no new socket.
C10_NoDialAfterClose == ~(lastDial.afterClose /\ lastDial.cause # "none")

\* C11: a Close of a shard that is already Closed (status Closed, no socket)
\* is a no-op: once it has returned, it has published nothing.
C11_CloseClosedNoOp ==
  (reclose.done /\ reclose.wasClosed) => reclose.emitted = "none"

\* C12: no Heartbeat frame, periodic or in reply to the gateway, waits on the
\* send bucket, and every frame of another opcode does.
C12_HeartbeatBypassesBucket ==
  /\ sendLog.hb # "waited"
  /\ sendLog.other # "bypassed"

C14_FirstEventTimeoutFails ==
  \A t \in Tasks :
    (pc[t] = "cn_ret" /\ loc[t].first = "timeout") => loc[t].err # "nil"

C17_PoolBoundsDispatch ==
  /\ Cardinality({d \in Execs : dpc[d] \in {"ex_run", "ex_free"}}) <= PoolSize
  /\ \A d, e \in Execs :
       (d # e /\ dpc[d] \in {"ex_run", "ex_free"} /\ dpc[e] \in {"ex_run", "ex_free"}) =>
         dres[d].ticket # dres[e].ticket
  /\ \A d \in Execs :
       /\ dpc[d] = "done" => dres[d].freed = 1
       /\ dpc[d] # "done" => dres[d].freed = 0

\* A goroutine has returned on the state-error path and released its ticket
\* while the other dispatches fill the pool.
C17_Witness ==
  /\ \E d \in Execs : dpc[d] = "done" /\ dres[d].err = "state" /\ dres[d].freed = 1
  /\ pool = 1..PoolSize
  /\ Cardinality({d \in Execs : dpc[d] \in {"ex_run", "ex_free"}}) = PoolSize

\* C18: a frame handed to OnEvent was received before every frame of its
\* channel that still waits, on the channel or in the hands of Connect (the
\* Dispatch frames of a session carry increasing sequence numbers).
C18_FramesInOrder ==
  LET m == loc["main"].msg
      c == loc["main"].rch
  IN (pc["main"] = "on_event" /\ m.s >= 1 /\ c # 0) =>
       /\ \A i \in 1..Len(msgq[c]) : msgq[c][i].s >= 1 => msgq[c][i].s > m.s
       /\ \A t \in Tasks :
            (pc[t] = "cn_requeue" /\ loc[t].mch = c /\ loc[t].cmsg.s >= 1) =>
              loc[t].cmsg.s > m.s

\* No entry for the guild in any of the three maps.
MapsEmpty ==
  MemberChunksComplete = 0 /\ MemberChunkCallbacks = 0 /\ MemberChunksCallback = 0

\* C19: when a chunk flow whose initial window ran out returns, none of the
\* three per-guild maps holds an entry.
C19_TimeoutCleansMaps ==
  [][\A k \in Callers :
       (cpc[k] = "cl_complete" /\ cloc[k].err = "timeout" /\ cpc'[k] = "done") =>
         MapsEmpty']_vars

\* C20: from the completion of a chunk flow until its delayed cleanup starts,
\* the map holds a set chunks_complete for the guild, the wait-handle is
\* released and the other two entries are present; when the cleanup ends, all
\* three are removed.
C20_CompletionPersists ==
  /\ [](\A k \in Callers :
         (cpc[k] = "cl_callback" /\ cloc[k].err = "nil") =>
           /\ wgDone[k]
           /\ MemberChunksComplete # 0 /\ completed[MemberChunksComplete]
           /\ MemberChunkCallbacks # 0 /\ MemberChunksCallback # 0)
  /\ [][\A k \in Callers :
         (cpc[k] = "cl_complete" /\ cloc[k].err = "nil" /\ cpc'[k] = "done") =>
           MapsEmpty']_vars

\* Chunk flows in progress: the flow has published per-guild state and has
\* not yet returned.
FlowsInProgress ==
  {k \in Callers : cpc[k] \in {"ck_arrivals", "ck_callback", "ck_send", "ck_first",
                               "ck_idle", "ck_set"}}

\* C21: every chunk flow in progress holds a limiter ticket, whatever the wait
\* argument of its caller, and the flows in progress never outnumber the
\* limiter's capacity.
C21_FlowsHoldTickets ==
  /\ \A k \in FlowsInProgress : cloc[k].ticket
  /\ Cardinality(FlowsInProgress) <= ChunkLimit

\* C22: a create request for a known manager opens a group exactly when it asks
\* for no more shard ids than session_start_limit.remaining; otherwise it is
\* answered with the session-limit error and calls Scale not at all.
C22_CreateWithinLimit ==
  \A r \in Rpcs :
    /\ rloc[r].res = "not enough sessions" => rloc[r].n > SessionsRemaining
    /\ (rpc[r] \in {"sc_iter", "sc_reg", "sc_open"} \/ rloc[r].res = "opened") =>
         rloc[r].n <= SessionsRemaining

\* C23: the id Scale issues is greater than every id issued before, no other
\* call in progress holds it, and the map has no entry under it when the call
\* registers its group, so that no entry is removed or replaced.
C23_ScaleIssuesFreshId ==
  \A r \in Rpcs :
    rpc[r] \in {"sc_reg", "sc_open"} =>
      /\ \A b \in rloc[r].before : rloc[r].iter > b
      /\ \A q \in Rpcs :
           (q # r /\ rpc[q] \in {"sc_reg", "sc_open"}) => rloc[q].iter # rloc[r].iter
      /\ rpc[r] = "sc_reg" => Lookup(rloc[r].iter) = "none"

\* Two concurrent Scale calls are about to register their groups beside a group
\* that is Ready.
C23_Witness ==
  /\ \A r \in Rpcs : rpc[r] = "sc_reg"
  /\ \E g \in GroupIds : ShardGroups[g] = "Ready"

C27_ValidatedConfiguration ==
  /\ created = "manager" =>
       /\ TrimSpace(Configuration.Token) # <<>>
       /\ Configuration.ClientName # ""
       /\ Configuration.MaxHeartbeatFailures >= 1
       /\ Configuration.Retries >= 1
  /\ (created # "none" /\ (TrimSpace(given.Token) = <<>> \/ given.ClientName = ""))
       => created = "error"

\* C28: GatherShardCount returns the smallest multiple of max_concurrency that
\* is greater than or equal to the base count (the gateway's recommended count
\* when auto-sharded, the configured count otherwise).
C28_RoundsUpToMultiple ==
  gathered.done =>
    LET base == IF gathered.auto THEN gathered.recommended ELSE gathered.configured
    IN  /\ gathered.count % gathered.per = 0
        /\ gathered.count >= base
        /\ \A m \in 0..(MaxShardCount + MaxConcurrencyLimit) :
             (m % gathered.per = 0 /\ m >= base) => gathered.count <= m

\* The recommended count of an auto-sharded manager, different from its
\* configured count and no multiple of max_concurrency, was rounded up.
C28_Witness ==
  /\ gathered.done
  /\ gathered.auto
  /\ gathered.recommended # gathered.configured
  /\ gathered.recommended % gathered.per # 0
  /\ gathered.count > gathered.recommended

\* The tasks that are inside Reconnect: at one of its own steps, or inside the
\* Close or the Connect it called.
ReconnectLabels == {"rc_status", "rc_after", "rc_final_ret"}
InReconnect(t) ==
  \/ pc[t] \in ReconnectLabels
  \/ \E i \in 1..Len(stk[t]) : stk[t][i] \in ReconnectLabels

\* C29: at most one Reconnect loop runs for the shard at any time: the
\* heartbeat task and the read loop (or a handler of OnEvent) that detect the
\* failure of one connection never both run Close and Connect for the shard.
C29_OneReconnectLoop == Cardinality({t \in Tasks : InReconnect(t)}) <= 1


\* The tasks that are inside Connect, Close or Reconnect, or inside a call
\* made by one of them.
HandshakeLabels ==
  {"cn_wait", "cn_conn", "cn_dial", "cn_chan", "cn_hello2", "cn_hs",
   "cn_identify", "cn_resume", "cn_first", "cn_requeue", "cn_ret",
   "cl_cancel", "cl_ws", "cl_status"} \cup ReconnectLabels
InHandshake(t) ==
  \/ pc[t] \in HandshakeLabels
  \/ \E i \in 1..Len(stk[t]) : stk[t][i] \in HandshakeLabels

\* C30: after every successful Connect, one made inside a Reconnect that the
\* heartbeat task started included, the shard has a running heartbeat task (so
\* that a heartbeat is eventually sent on the new connection): while the
\* connection is open and no task is connecting, closing or reconnecting, a
\* heartbeat goroutine exists.
C30_HeartbeatAfterConnect ==
  (wsConn \in LiveSockets /\ ~ctxDone /\ \A t \in Tasks : ~InHandshake(t))
    => \E h \in HbTasks : pc[h] # "idle"


\* C31: after a reconnect that the heartbeat task started has succeeded, every
\* frame the reader puts on the message channel of the new connection is
\* eventually read by the read loop (and passed to OnEvent): the read loop does
\* not stay blocked on the channels of the previous connection.
C31_NewFramesAreRead ==
  \A c \in ConnIds :
    (wsConn = c /\ c # Established /\ MessageCh = c /\ msgq[c] # <<>>
       /\ \A t \in Tasks : ~InHandshake(t))
      ~> (msgq[c] = <<>>)


\* C32: OnEvent is invoked only with frames that were received from the
\* socket: when readMessage returns an error, on the same connection or on one
\* replaced meanwhile by another task, the iteration of the read loop passes
\* nothing to OnEvent (so nothing is dispatched and the stored sequence is not
\* written).
C32_OnEventOnlyForFrames ==
  pc["main"] = "on_event" => loc["main"].rch # 0


\* C33: whenever Reconnect returns success, after a regular attempt or after
\* the final attempt made once the budget reached zero, the retry budget of
\* the shard equals the configured retries.
C33_SuccessResetsBudget ==
  [][\A t \in Tasks :
       (pc[t] \in {"rc_after", "rc_final_ret"} /\ loc[t].err = "nil" /\ pc'[t] # pc[t])
         => Retries' = CfgRetries]_vars


\* C34: within one Reconnect the waits slept between failed Connect attempts
\* are 1 s, 2 s, 4 s, ...: each is twice the one before until the cap, from
\* then on each is 600 s, and none is shorter than the one before it.
C34_WaitsDouble ==
  /\ Len(backoff.slept) >= 1 => backoff.slept[1] = Second
  /\ \A i \in 2..Len(backoff.slept) :
       /\ backoff.slept[i] >= backoff.slept[i - 1]
       /\ \/ backoff.slept[i] % 2 = 0 /\ backoff.slept[i] \div 2 = backoff.slept[i - 1]
          \/ backoff.slept[i] % Second = 0 /\ backoff.slept[i] \div Second = maxReconnectWait


\* C35: after a handshake that sent IDENTIFY has completed, the identify
\* bucket gw:{token hash}:{concurrency bucket} the IDENTIFY waited on has been
\* reset: its used count is cleared.
C35_IdentifyBucketReset ==
  [][\A s \in IdShards :
       (ish[s].pc = "sent" /\ ~ish[s].session /\ ish'[s].pc = "idle")
         => buckets'["sandwich"][GwName(s)].taken = {}]_vars


\* A function that has not returned and whose next lock operation cannot be
\* made.
Blocked(t) ==
  \/ NextOp(t)[1] = "RLock" /\ ~CanRLock(NextOp(t)[2])
  \/ NextOp(t)[1] = "Lock" /\ t \in rw[NextOp(t)[2]].pend /\ ~CanLock(NextOp(t)[2])

\* C36: the locks are always taken in the order Sandwich.config, then
\* Manager.config: no task requests Sandwich.config while it holds
\* Manager.config, and no interleaving of a handshake (Identify, Resume,
\* WriteJSON), the validation of a configuration and an update of the manager's
\* configuration ends with the unfinished functions all waiting for a lock.
C36_LockOrder ==
  /\ \A t \in Lockers :
       NextOp(t)[2] = "Sandwich.ConfigurationMu" /\ NextOp(t)[1] \in {"RLock", "Lock"}
         => ~Holds(t, "Manager.ConfigurationMu")
  /\ (\E t \in Lockers : ~Returned(t)) => \E t \in Lockers : ~Returned(t) /\ ~Blocked(t)


\* C37: every ChunkGuild caller that finds a chunk flow in progress for the
\* guild and waits on its WaitGroup eventually returns, also when the flow it
\* waits on ends with ErrChunkTimeout or with a failed RequestGuildMembers
\* send.
C37_WaitersReturn ==
  \A k \in Callers : (cpc[k] = "cg_wait") ~> (cpc[k] = "returned")


\* C38: under any interleaving of ChunkGuild calls, chunk flows and delayed
\* cleanups for one guild, cleanGuildChunks closes the arrival channel only
\* when the map holds one (never a missing or an already closed channel), and
\* never closes the arrival channel of a flow that still waits for chunks.
C38_CleanClosesOwnChannel ==
  /\ ~closedNil
  /\ \A k \in Callers : cpc[k] \in {"ck_first", "ck_idle"} => ~chanClosed[k]


\* ------------------------------------------- Connect's requeue of the frame
\* Frames the gateway may send in a row while Connect handles the first one:
\* one more than the message channel holds.
MaxBurst == 65

\* FeedWebsocket's reader (l.521-551): every frame read off the socket is put
\* on messageCh for as long as the channel has room, whoever is receiving.
GwBurst(c) ==
  /\ ReaderCanRead(c)
  /\ conn[c].sess # "none" /\ gwSeq >= 1 /\ gwSeq < MaxBurst
  /\ msgq' = Pushed(c, [op |-> "Dispatch", s |-> gwSeq + 1, t |-> "OTHER",
                        d |-> FALSE, sid |-> 0])
  /\ gwSeq' = gwSeq + 1
  /\ UNCHANGED <<Status, wsConn, ctxDone, HeartbeatActive, Retries, chanV, sessV,
                 conn, errq, nconn, nframes, nhbfail, chunkV, dispV, mgV, idV, cfgV, lockV, obsV, pc, stk, loc, sgV, histV>>

\* The first Connect of a shard, called by ShardGroup.Open before the read
\* loop of the shard is started.
FirstConnect(t) ==
  \/ ReadPoll(t) \/ ReadWait(t)
  \/ ConnectWaiting(t) \/ ConnectConnecting(t) \/ ConnectDial(t)
  \/ ConnectChannels(t) \/ ConnectHello(t) \/ ConnectChoose(t)
  \/ ConnectIdentify(t) \/ ConnectFirstEvent(t)
  \/ ConnectRequeue(t) \/ ConnectReturn(t)

NextRequeue ==
  \/ GroupOpen
  \/ FirstConnect("main")
  \/ \E c \in ConnIds : GwBurst(c)

SpecRequeue == Init /\ [][NextRequeue]_vars

\* The goroutine that runs Connect is scheduled whenever it can take a step.
SpecRequeueFair == SpecRequeue /\ WF_vars(FirstConnect("main"))

\* C39: when the first-event wait of Connect has taken a frame off the message
\* channel, putting it back completes and Connect goes on to return, whatever
\* the reader has put on the channel in the meantime.
C39_RequeueCompletes == (pc["main"] = "cn_requeue") ~> (pc["main"] # "cn_requeue")


\* C40: when Connect returns an error that came up in the first-event window
\* of a connection on which RESUME was sent (Resume has set the status to
\* Ready), the status of the shard is not Ready once Connect has returned and
\* its deferred CloseWS has released the socket.
C40_ReadyHasSocket ==
  [][\A t \in Tasks :
       (/\ pc[t] = "cn_ret" /\ pc'[t] # "cn_ret"
        /\ loc[t].err # "nil" /\ loc[t].first \in {"error", "timeout"}
        /\ loc[t].sent = "Resume" /\ wsConn # 0)
         => ~(Status' = "Ready" /\ wsConn' = 0)]_vars
====
